---- MODULE Spec2Model ----
(***************************************************************************)
(* Move-selection core of Chess_RL: the static evaluator's terminal and    *)
(* bonus terms, alpha-beta minimax with quiescence (search/minimax.py) and *)
(* UCT Monte-Carlo tree search (search/mcts.py).                           *)
(*                                                                         *)
(* The rules engine (python-chess) is external.  A position is the move    *)
(* stack played from the caller's position; the game below that position   *)
(* is one of a bounded family of finite games selected by `seed`: the      *)
(* first WidePly plies branch (up to Branch legal moves), after that every *)
(* line is a forced sequence that ends at a line-specific ply, at the      *)
(* latest at MaxPly, where the move-count draw rule ends the game.  The    *)
(* rollout loops are unrolled ply by ply while the position branches and   *)
(* in one stride along a forced sequence.                                  *)
(* Scores are centipawns; MCTS values are kept in thousandths so that      *)
(* evaluate/1000.0 is exact.                                               *)
(***************************************************************************)
EXTENDS Integers, Sequences, FiniteSets, TLC

\* ---- bounds of the model ------------------------------------------------
MaxSeed == 23          \* games 0..MaxSeed
WidePly == 2           \* plies with more than one legal move
Branch == 2            \* most legal moves in a position
MaxPly == 58           \* every line is over at this ply
MaxDepth == 2          \* depth arguments 0..MaxDepth
MaxSims == 3           \* largest simulation budget
MaxCap == 2            \* max_depth arguments 0..MaxCap of direct quiescence calls
MaxRemoved == 1        \* pieces left out of a base position before it is evaluated
MaxCrowded == 149      \* games CrowdedBase..CrowdedBase + MaxCrowded start crowded
CrowdedBase == 100     \* first game with a crowded starting position
CrowdedMoves == 7      \* legal moves in a crowded starting position

\* ---- program constants --------------------------------------------------
WHITE == TRUE
BLACK == FALSE
MATE_SCORE == 100000
CHECK_BONUS == 50
NegInf == -10000000
PosInf == 10000000
QuiescenceMaxDepth == 10
CheckLimitOfSix == 5 + 1
QuiescenceCheckLimit == 5
DefaultSearchDepth == 3
MinSearchDepth == 1
MaxSearchDepth == 6
CheckPriority == 50
PromotionPriority == 900
VictimWeight == 100
RandomMaxMoves == 200
GuidedMaxMoves == 50
ValueScale == 1000

VARIABLES
  seed,       \* which game lies below the caller's position
  rootTurn,   \* side to move in the caller's position
  board,      \* the caller's chess.Board: its move stack
  pc,         \* "idle", or which call is in progress / has returned
  args,       \* arguments of the call
  ret,        \* what the call returned, with the search counters
  tree,       \* MCTS: the nodes created so far, root first
  iter,       \* MCTS: simulations completed (loop variable i)
  simLog,     \* MCTS: per simulation, where it started and what it fed back
  earlier,    \* arguments and result of the caller's previous move request
  engine      \* the UCIEngine object and what it wrote for the last command

vars == <<seed, rootTurn, board, pc, args, ret, tree, iter, simLog, earlier, engine>>

\* ---- rules engine: positions of the game family --------------------------
Push(b, m) == Append(b, m)
Pop(b) == SubSeq(b, 1, Len(b) - 1)
BoardCopy(b) == b

Prefix(b) == IF Len(b) <= WidePly THEN b ELSE SubSeq(b, 1, WidePly)

RECURSIVE PosCode(_)
PosCode(p) ==
  IF p = <<>> THEN 0
  ELSE ((PosCode(SubSeq(p, 1, Len(p) - 1)) * 5) + p[Len(p)]) % 211

Mix(c, l, salt) ==
  LET x0 == (seed * 97 + c * 31 + l * 17 + salt * 59 + 28) % 1009
      x1 == (x0 * x0 + 3 * x0 + 41) % 1013
  IN  (x1 * 37 + x0) % 997

\* attribute of the position itself
Rnd(b, salt, n) == (Mix(PosCode(Prefix(b)), Len(b), salt)) % n
\* attribute of the forced line the position lies on
RndLine(b, salt, n) == (Mix(PosCode(Prefix(b)), WidePly, salt)) % n

Turn(b) == IF Len(b) % 2 = 0 THEN rootTurn ELSE ~rootTurn

\* every third game has lines that last until the move-count rule ends them
LongGame == seed % 3 = 0

\* ply at which the forced line through b ends
EndPly(b) ==
  LET k == RndLine(b, 9, 4)
  IN  IF k = 0 THEN WidePly + 1
      ELSE IF k = 1 THEN WidePly + 2
      ELSE IF LongGame THEN MaxPly
      ELSE IF k = 2 THEN WidePly + 4
      ELSE WidePly + 3

TerminalKind(k) ==
  IF k = 0 THEN "checkmate"
  ELSE IF k = 1 THEN "stalemate"
  ELSE IF k = 2 THEN "insufficient"
  ELSE IF k = 3 THEN "seventyfive"
  ELSE "checkmate"

\* "normal", or the reason the rules engine reports the game over
Kind(b) ==
  IF Len(b) >= MaxPly THEN "seventyfive"
  ELSE IF Len(b) < WidePly
    THEN LET k == Rnd(b, 1, 14)
         IN  IF k < (IF b = <<>> THEN 4 ELSE 6) THEN TerminalKind(k) ELSE "normal"
    ELSE IF Len(b) >= EndPly(b) THEN TerminalKind(RndLine(b, 10, 6)) ELSE "normal"

is_checkmate(b) == Kind(b) = "checkmate"
is_stalemate(b) == Kind(b) = "stalemate"
is_insufficient_material(b) == Kind(b) = "insufficient"
is_game_over(b) == Kind(b) # "normal"

\* the games from CrowdedBase on start from a position with many legal moves
Crowded(b) == b = <<>> /\ seed >= CrowdedBase

NumLegal(b) ==
  IF Kind(b) \in {"checkmate", "stalemate"} THEN 0
  ELSE IF Crowded(b) THEN CrowdedMoves
  ELSE IF Len(b) < WidePly THEN 1 + Rnd(b, 2, Branch)
  ELSE 1

\* list(board.legal_moves): the moves in the engine's enumeration order
legal_moves(b) == [i \in 1..NumLegal(b) |-> i]

is_check(b) ==
  IF Kind(b) = "checkmate" THEN TRUE
  ELSE IF Kind(b) = "stalemate" THEN FALSE
  ELSE Rnd(b, 3, 4) = 0

\* ply up to which the forced line is an exchange of captures
QuietPly(b) == WidePly + RndLine(b, 11, 4)

is_capture(b, m) ==
  IF Len(b) < WidePly THEN Rnd(Push(b, m), 5, 3) = 0
  ELSE Len(b) < QuietPly(b)

promotion(b, m) == Rnd(Push(b, m), 6, 9) = 0

\* piece_type of the piece on the target square, 0 when empty (en passant)
captured_type(b, m) == Rnd(Push(b, m), 7, 6)
\* piece_type of the moving piece, 1 (pawn) .. 6 (king)
attacker_type(b, m) == 1 + Rnd(Push(b, m), 8, 6)

\* material + centre + development + king safety + pawn structure
Positional(b) == (Rnd(b, 4, 31) - 15) * 200

\* ---- engine/evaluator.py --------------------------------------------------
\* the check bonus: 50 against the side to move when it is in check
CheckTerm(turn, check) ==
  IF check THEN (IF turn = WHITE THEN -CHECK_BONUS ELSE CHECK_BONUS) ELSE 0

\* the mobility bonus: one point per legal move for the side to move
MobilityTerm(turn, mobility) == IF turn = WHITE THEN mobility ELSE -mobility

EvaluationDrawIgnored(checkmate, drawn, turn, positional, check, mobility) ==
  IF checkmate THEN (IF turn = WHITE THEN -MATE_SCORE ELSE MATE_SCORE)
  ELSE positional + CheckTerm(turn, check) + MobilityTerm(turn, mobility)

\* evaluate(board), given the answers of the rules engine for the board and the
\* sum of the material, centre, development, king safety and pawn terms
Evaluation(checkmate, drawn, turn, positional, check, mobility) ==
  IF checkmate THEN (IF turn = WHITE THEN -MATE_SCORE ELSE MATE_SCORE)
  ELSE IF drawn THEN 0
  ELSE positional + CheckTerm(turn, check) + MobilityTerm(turn, mobility)

evaluate(b) ==
  Evaluation(is_checkmate(b), is_stalemate(b) \/ is_insufficient_material(b), Turn(b),
             Positional(b), is_check(b), NumLegal(b))

\* ---- search/minimax.py: move ordering ------------------------------------
Max(x, y) == IF x >= y THEN x ELSE y
Min(x, y) == IF x <= y THEN x ELSE y

\* a priority that looks at the victim only
PriorityWithoutAttacker(b, m) ==
  LET cap == IF is_capture(b, m) THEN captured_type(b, m) * VictimWeight ELSE 0
      chk == IF is_check(Push(BoardCopy(b), m)) THEN CheckPriority ELSE 0
      pro == IF promotion(b, m) THEN PromotionPriority ELSE 0
  IN  cap + chk + pro

move_priority(b, m) ==
  LET cap == IF is_capture(b, m)
             THEN captured_type(b, m) * VictimWeight - attacker_type(b, m)
             ELSE 0
      chk == IF is_check(Push(BoardCopy(b), m)) THEN CheckPriority ELSE 0
      pro == IF promotion(b, m) THEN PromotionPriority ELSE 0
  IN  cap + chk + pro

\* sorted(moves, key=move_priority, reverse=True): stable, highest first
RECURSIVE InsertByPriority(_, _, _, _)
InsertByPriority(b, sorted, m, i) ==
  IF i > Len(sorted) THEN Append(sorted, m)
  ELSE IF move_priority(b, sorted[i]) < move_priority(b, m)
    THEN SubSeq(sorted, 1, i - 1) \o <<m>> \o SubSeq(sorted, i, Len(sorted))
    ELSE InsertByPriority(b, sorted, m, i + 1)

RECURSIVE SortFrom(_, _, _, _)
SortFrom(b, moves, i, sorted) ==
  IF i > Len(moves) THEN sorted
  ELSE SortFrom(b, moves, i + 1, InsertByPriority(b, sorted, moves[i], 1))

order_moves(b, moves) == SortFrom(b, moves, 1, <<>>)

\* ---- search/minimax.py: what a search call hands back ---------------------
\* v: returned value; b: the shared board when the call returns;
\* n: nodes_searched added; d: longest chain of nested calls, this one included;
\* lo: least depth argument of a minimax call; qlo: least max_depth argument;
\* moves: the moves the outermost frame's loop searched, in order; scores: what the
\* recursive calls returned for them
Leaf(v, b, lo, qlo) ==
  [v |-> v, b |-> b, n |-> 1, d |-> 1, lo |-> lo, qlo |-> qlo,
   moves |-> <<>>, scores |-> <<>>]

NoCalls(b) ==
  [v |-> 0, b |-> b, n |-> 0, d |-> 0, lo |-> PosInf, qlo |-> PosInf,
   moves |-> <<>>, scores |-> <<>>]

\* the counters of a frame after the child call for `move` has returned r
AfterChild(acc, r, b, move) ==
  [v |-> r.v, b |-> b, n |-> acc.n + r.n, d |-> Max(acc.d, r.d),
   lo |-> Min(acc.lo, r.lo), qlo |-> Min(acc.qlo, r.qlo),
   moves |-> Append(acc.moves, move), scores |-> Append(acc.scores, r.v)]

\* the frame itself returns v
Return(acc, v, lo, qlo) ==
  [v |-> v, b |-> acc.b, n |-> acc.n + 1, d |-> acc.d + 1,
   lo |-> Min(acc.lo, lo), qlo |-> Min(acc.qlo, qlo),
   moves |-> acc.moves, scores |-> acc.scores]

\* ---- search/minimax.py: quiescence_search ---------------------------------
\* board.pop() after the check test of a quiet move
CheckTestPop(b) == Pop(b)

\* the loop that collects captures, promotions and (while few) checks
RECURSIVE NoisyScan(_, _, _, _)
NoisyScan(b, all_moves, i, noisy_moves) ==
  IF i > Len(all_moves) THEN [moves |-> noisy_moves, b |-> b]
  ELSE LET move == all_moves[i] IN
    IF is_capture(b, move) THEN NoisyScan(b, all_moves, i + 1, Append(noisy_moves, move))
    ELSE IF promotion(b, move) THEN NoisyScan(b, all_moves, i + 1, Append(noisy_moves, move))
    ELSE IF Len(noisy_moves) < QuiescenceCheckLimit
      THEN LET pushed == Push(b, move)
               found == IF is_check(pushed) THEN Append(noisy_moves, move) ELSE noisy_moves
           IN  NoisyScan(CheckTestPop(pushed), all_moves, i + 1, found)
      ELSE NoisyScan(b, all_moves, i + 1, noisy_moves)

\* a quiescence frame that never stops on its stand-pat score
NoStandPatCut(stand_pat, alpha, beta, maximizing) == FALSE

\* stand-pat cutoff and window update
StandPatCut(stand_pat, alpha, beta, maximizing) ==
  IF maximizing THEN stand_pat >= beta ELSE stand_pat <= alpha

\* a recursive call that passes max_depth on unchanged
QuiescenceSameDepth(max_depth) == max_depth

\* max_depth passed to the recursive call
QuiescenceChildDepth(max_depth) == max_depth - 1

\* a loop body that leaves the move on the board
QuiescenceNoPop(b) == b

\* board.pop() after a recursive quiescence call
QuiescencePop(b) == Pop(b)

\* a cutoff that hands back the score that caused it
CutoffScore(bound, score) == score

\* "return beta  # Beta cutoff" / "return alpha  # Alpha cutoff"
CutoffValue(bound, score) == bound

RECURSIVE quiescence_search(_, _, _, _, _)
RECURSIVE QuiescenceLoop(_, _, _, _, _, _, _)

\* one pass of the loop over the noisy moves, r being what the recursive call returned
QuiescenceStep(ordered_moves, i, alpha, beta, maximizing, max_depth, acc, r) ==
  LET acc1 == AfterChild(acc, r, QuiescencePop(r.b), ordered_moves[i])
      score == r.v
  IN  IF maximizing
      THEN IF score >= beta
           THEN Return(acc1, CutoffValue(beta, score), PosInf, max_depth)
           ELSE QuiescenceLoop(ordered_moves, i + 1, Max(alpha, score), beta,
                               maximizing, max_depth, acc1)
      ELSE IF score <= alpha
           THEN Return(acc1, CutoffValue(alpha, score), PosInf, max_depth)
           ELSE QuiescenceLoop(ordered_moves, i + 1, alpha, Min(beta, score),
                               maximizing, max_depth, acc1)

QuiescenceLoop(ordered_moves, i, alpha, beta, maximizing, max_depth, acc) ==
  IF i > Len(ordered_moves)
  THEN Return(acc, IF maximizing THEN alpha ELSE beta, PosInf, max_depth)
  ELSE QuiescenceStep(ordered_moves, i, alpha, beta, maximizing, max_depth, acc,
                      quiescence_search(Push(acc.b, ordered_moves[i]), alpha, beta,
                                        ~maximizing, QuiescenceChildDepth(max_depth)))

\* after the noisy moves have been collected: scan.moves, with the board in scan.b
QuiescenceMoves(alpha, beta, maximizing, max_depth, stand_pat, scan) ==
  IF scan.moves = <<>> THEN Leaf(stand_pat, scan.b, PosInf, max_depth)
  ELSE QuiescenceLoop(order_moves(scan.b, scan.moves), 1, alpha, beta,
                      maximizing, max_depth, NoCalls(scan.b))

\* after stand_pat = evaluate(board)
QuiescenceStandPat(b, alpha, beta, maximizing, max_depth, stand_pat) ==
  IF max_depth <= 0 THEN Leaf(stand_pat, b, PosInf, max_depth)
  ELSE IF StandPatCut(stand_pat, alpha, beta, maximizing)
    THEN Leaf(IF maximizing THEN beta ELSE alpha, b, PosInf, max_depth)
  ELSE QuiescenceMoves(IF maximizing /\ stand_pat > alpha THEN stand_pat ELSE alpha,
                       IF ~maximizing /\ stand_pat < beta THEN stand_pat ELSE beta,
                       maximizing, max_depth, stand_pat,
                       NoisyScan(b, legal_moves(b), 1, <<>>))

quiescence_search(b, alpha, beta, maximizing, max_depth) ==
  IF is_game_over(b) THEN Leaf(evaluate(b), b, PosInf, max_depth)
  ELSE QuiescenceStandPat(b, alpha, beta, maximizing, max_depth, evaluate(b))

\* ---- search/minimax.py: minimax -------------------------------------------
\* a pruning test that fires while the window is still open
CutoffOpenWindow(alpha, beta) == alpha <= beta

\* a pruning test that lets a window of one point stay open
CutoffStrict(alpha, beta) == beta < alpha

\* the pruning test after a child has been scored
Cutoff(alpha, beta) == beta <= alpha

\* depth passed to the recursive call
MinimaxChildDepth(depth) == depth - 1

\* board.pop() after a recursive minimax call
MinimaxPop(b) == Pop(b)

RECURSIVE minimax(_, _, _, _, _)
RECURSIVE MinimaxLoop(_, _, _, _, _, _, _, _)

\* one pass of the loop over the ordered moves, r being what the recursive call returned
MinimaxStep(ordered_moves, i, alpha, beta, maximizing, depth, best, acc, r) ==
  LET acc1 == AfterChild(acc, r, MinimaxPop(r.b), ordered_moves[i])
      eval_score == r.v
      best1 == IF maximizing THEN Max(best, eval_score) ELSE Min(best, eval_score)
      alpha1 == IF maximizing THEN Max(alpha, eval_score) ELSE alpha
      beta1 == IF maximizing THEN beta ELSE Min(beta, eval_score)
  IN  IF Cutoff(alpha1, beta1) THEN Return(acc1, best1, depth, PosInf)
      ELSE MinimaxLoop(ordered_moves, i + 1, alpha1, beta1, maximizing, depth,
                       best1, acc1)

MinimaxLoop(ordered_moves, i, alpha, beta, maximizing, depth, best, acc) ==
  IF i > Len(ordered_moves) THEN Return(acc, best, depth, PosInf)
  ELSE MinimaxStep(ordered_moves, i, alpha, beta, maximizing, depth, best, acc,
                   minimax(Push(acc.b, ordered_moves[i]), MinimaxChildDepth(depth),
                           alpha, beta, ~maximizing))

\* "Base case: depth limit reached - use quiescence search": q is what it returned
DepthZero(depth, q) ==
  [v |-> q.v, b |-> q.b, n |-> q.n + 1, d |-> q.d + 1, lo |-> depth, qlo |-> q.qlo,
   moves |-> q.moves, scores |-> q.scores]

minimax(b, depth, alpha, beta, maximizing) ==
  IF is_game_over(b) THEN Leaf(evaluate(b), b, depth, PosInf)
  ELSE IF depth = 0
    THEN DepthZero(depth, quiescence_search(b, alpha, beta, maximizing, QuiescenceMaxDepth))
  ELSE IF legal_moves(b) = <<>> THEN Leaf(evaluate(b), b, depth, PosInf)
  ELSE MinimaxLoop(order_moves(b, legal_moves(b)), 1, alpha, beta, maximizing, depth,
                   IF maximizing THEN NegInf ELSE PosInf, NoCalls(b))

\* ---- search/minimax.py: best_move_minimax ---------------------------------
None == 0

\* board.pop() at the end of the root loop body
RootPop(b) == Pop(b)

\* a root that searches even when the move is forced
NoShortcut(legal) == FALSE

\* "Single legal move? Play it instantly"
SingleMoveShortcut(legal) == Len(legal) = 1

\* a comparison that prefers the worse score
BetterReversed(white_played, score, best_score) ==
  IF white_played THEN score < best_score ELSE score > best_score

\* a comparison that lets a later move replace an equal earlier one
BetterOrEqual(white_played, score, best_score) ==
  IF white_played THEN score >= best_score ELSE score <= best_score

\* "if score > best_score" after a White move, "if score < best_score" after a Black one
Better(white_played, score, best_score) ==
  IF white_played THEN score > best_score ELSE score < best_score

RECURSIVE RootLoop(_, _, _, _, _, _, _, _)

\* one pass of the root loop, r being what minimax returned for `move`
RootStep(ordered_moves, i, alpha, beta, depth, best_move, best_score, acc, move, white_played, r) ==
  LET score == r.v
      better == Better(white_played, score, best_score)
  IN  RootLoop(ordered_moves, i + 1,
               IF white_played THEN Max(alpha, score) ELSE alpha,
               IF white_played THEN beta ELSE Min(beta, score),
               depth,
               IF better THEN move ELSE best_move,
               IF better THEN score ELSE best_score,
               AfterChild(acc, r, RootPop(r.b), move))

RootLoop(ordered_moves, i, alpha, beta, depth, best_move, best_score, acc) ==
  IF i > Len(ordered_moves)
  THEN [move |-> best_move, score |-> best_score, b |-> acc.b, n |-> acc.n,
        d |-> acc.d, lo |-> acc.lo, qlo |-> acc.qlo]
  ELSE LET pushed == Push(acc.b, ordered_moves[i])
           white_played == Turn(pushed) = BLACK
       IN  RootStep(ordered_moves, i, alpha, beta, depth, best_move, best_score, acc,
                    ordered_moves[i], white_played,
                    minimax(pushed, depth - 1, alpha, beta, ~white_played))

best_move_minimax(b, depth) ==
  LET legal == legal_moves(b)
      quick(m) == [move |-> m, score |-> 0, b |-> b, n |-> 0, d |-> 0,
                   lo |-> PosInf, qlo |-> PosInf]
  IN  IF legal = <<>> THEN quick(None)
      ELSE IF SingleMoveShortcut(legal) THEN quick(legal[1])
      ELSE RootLoop(order_moves(b, legal), 1, NegInf, PosInf, depth, None,
                    IF Turn(b) = WHITE THEN NegInf ELSE PosInf, NoCalls(b))

\* ---- search/mcts.py: MCTSNode -----------------------------------------------
\* random.shuffle(self.untried_moves): any order of the legal moves
Shuffles(moves) ==
  LET n == Len(moves)
  IN  {[i \in 1..n |-> moves[f[i]]] :
         f \in {g \in [1..n -> 1..n] : \A i, j \in 1..n : g[i] = g[j] => i = j}}

\* a node that counts its own creation as a visit
NewNodeVisited(b, parent, move, untried) ==
  [board |-> BoardCopy(b), parent |-> parent, move |-> move,
   visit_count |-> 1, total_value |-> 0,
   children |-> <<>>, untried_moves |-> untried]

\* MCTSNode.__init__; parent 0 and move None for the root
NewNode(b, parent, move, untried) ==
  [board |-> BoardCopy(b), parent |-> parent, move |-> move,
   visit_count |-> 0, total_value |-> 0,
   children |-> <<>>, untried_moves |-> untried]

\* a test that is content with one child
has_children(node) == Len(node.children) > 0

is_fully_expanded(node) == Len(node.untried_moves) = 0
is_terminal(node) == is_game_over(node.board)

\* exploration_constant * sqrt(ln(N_parent) / N_child) is compared, never computed:
\* it is 0 when the constant is 0 or the parent has one visit, and otherwise
\* strictly monotone in the child's visit count, falling for a positive constant
ExploreGeq(c, d, parent, exploration_constant) ==
  IF exploration_constant = 0 \/ parent.visit_count = 1 THEN TRUE
  ELSE IF exploration_constant > 0 THEN c.visit_count <= d.visit_count
  ELSE c.visit_count >= d.visit_count

\* get_average_value compared by cross-multiplication (visit counts are positive)
AverageGeq(c, d) == c.total_value * d.visit_count >= d.total_value * c.visit_count

\* child c's uct_value is certainly the larger one, or equal with c earlier in
\* children.values(); float sums of rollout estimates need not tie exactly
UctBeats(t, c, d, parent, exploration_constant, exact) ==
  LET cn == t[c]
      dn == t[d]
      qge == AverageGeq(cn, dn)
      ege == ExploreGeq(cn, dn, parent, exploration_constant)
      strict == ~AverageGeq(dn, cn) \/ ~ExploreGeq(dn, cn, parent, exploration_constant)
  IN  qge /\ ege /\ (strict \/ (exact /\ c < d))

\* the nodes max(children, key=uct_value) can return
best_child(t, p, exploration_constant, exact) ==
  LET kids == {t[p].children[i] : i \in 1..Len(t[p].children)}
      unvisited == {c \in kids : t[c].visit_count = 0}
  IN  IF unvisited # {}
      THEN {c \in unvisited : \A d \in unvisited : c <= d}
      ELSE {c \in kids :
              \A d \in kids \ {c} : ~UctBeats(t, d, c, t[p], exploration_constant, exact)}

\* what best_child(p) reads: the node's counters and its children's visit counts
Applied(t, p) ==
  [node |-> p, visit_count |-> t[p].visit_count,
   untried |-> Len(t[p].untried_moves),
   visits |-> [i \in 1..Len(t[p].children) |-> t[t[p].children[i]].visit_count]]

\* 1. SELECTION: the (node, search_board) pairs the walk down the tree can end at;
\* walk: the best_child calls made on the way
RECURSIVE Selection(_, _, _, _, _, _)
Selection(t, node, search_board, exploration_constant, exact, walk) ==
  IF is_fully_expanded(t[node]) /\ ~is_terminal(t[node])
  THEN UNION {Selection(t, c, Push(search_board, t[c].move), exploration_constant, exact,
                        Append(walk, Applied(t, node))) :
                c \in best_child(t, node, exploration_constant, exact)}
  ELSE {[node |-> node, search_board |-> search_board, walk |-> walk]}

\* an expansion that leaves the move among the untried ones
ExpandKeepsMove(t, p, untried) ==
  LET moves == t[p].untried_moves
      move == moves[Len(moves)]
      child == NewNode(Push(BoardCopy(t[p].board), move), p, move, untried)
  IN  Append([t EXCEPT ![p].children = Append(@, Len(t) + 1)], child)

\* MCTSNode.expand: pop the last untried move, add the child at the end of the tree
expand(t, p, untried) ==
  LET moves == t[p].untried_moves
      move == moves[Len(moves)]
      child == NewNode(Push(BoardCopy(t[p].board), move), p, move, untried)
  IN  Append([t EXCEPT ![p].untried_moves = SubSeq(moves, 1, Len(moves) - 1),
                       ![p].children = Append(@, Len(t) + 1)],
             child)

\* ---- search/mcts.py: rollouts (results in thousandths, White's perspective) --
\* "Determine result" of a finished rollout
GameResult(sim_board) ==
  IF is_checkmate(sim_board)
  THEN (IF Turn(sim_board) = BLACK THEN ValueScale ELSE -ValueScale)
  ELSE 0

\* how many passes the rollout loop makes along the forced sequence from
\* sim_board (one legal move per ply, no game end before EndPly) with
\* `left` moves of its budget remaining
ForcedStride(sim_board, left) == Min(left, EndPly(sim_board) - Len(sim_board))

\* sim_board after k passes that each push the only legal move
ForcedRun(sim_board, k) == sim_board \o [i \in 1..k |-> 1]

\* simulate_random: every result random.choice can lead to
RECURSIVE simulate_random(_, _)
simulate_random(sim_board, moves) ==
  IF is_game_over(sim_board) \/ moves >= RandomMaxMoves \/ NumLegal(sim_board) = 0
  THEN {GameResult(sim_board)}
  ELSE IF Len(sim_board) >= WidePly
    THEN LET k == ForcedStride(sim_board, RandomMaxMoves - moves)
         IN  simulate_random(ForcedRun(sim_board, k), moves + k)
    ELSE UNION {simulate_random(Push(sim_board, m), moves + 1) :
                  m \in 1..NumLegal(sim_board)}

\* the 1-ply greedy choice of a guided rollout
RECURSIVE GreedyMove(_, _, _, _, _)
GreedyMove(sim_board, legal, i, best_move, best_eval) ==
  IF i > Len(legal) THEN best_move
  ELSE LET eval_score == evaluate(Push(sim_board, legal[i]))
           better == IF Turn(sim_board) = WHITE
                     THEN eval_score > best_eval ELSE eval_score < best_eval
       IN  GreedyMove(sim_board, legal, i + 1,
                      IF better THEN legal[i] ELSE best_move,
                      IF better THEN eval_score ELSE best_eval)

\* the evaluation scaled but not clamped
NoClamp(eval_score) == eval_score

\* max(-1.0, min(1.0, eval_score / 1000.0))
Clamp(eval_score) == Max(-ValueScale, Min(ValueScale, eval_score))

\* the rollout loop of simulate_with_evaluator: the board it stops on
RECURSIVE GuidedRollout(_, _)
GuidedRollout(sim_board, moves) ==
  IF is_game_over(sim_board) \/ moves >= GuidedMaxMoves \/ NumLegal(sim_board) = 0
  THEN sim_board
  ELSE IF Len(sim_board) >= WidePly
    THEN LET k == ForcedStride(sim_board, GuidedMaxMoves - moves)
         IN  GuidedRollout(ForcedRun(sim_board, k), moves + k)
    ELSE LET best_move == GreedyMove(sim_board, legal_moves(sim_board), 1, None,
                                     IF Turn(sim_board) = WHITE THEN NegInf ELSE PosInf)
         IN  GuidedRollout(
               IF best_move # None THEN Push(sim_board, best_move) ELSE sim_board,
               moves + 1)

\* "Return result or position evaluation"
GuidedResult(sim_board) ==
  IF is_checkmate(sim_board) THEN GameResult(sim_board)
  ELSE IF is_game_over(sim_board) THEN 0
  ELSE Clamp(evaluate(sim_board))

simulate_with_evaluator(board0) == GuidedResult(GuidedRollout(BoardCopy(board0), 0))

\* 3. SIMULATION
Rollouts(search_board, use_evaluator) ==
  IF use_evaluator THEN {simulate_with_evaluator(search_board)}
  ELSE simulate_random(BoardCopy(search_board), 0)

\* the rollout result handed on from White's perspective
KeepPerspective(value, root_board, search_board) == value

\* "Adjust value to be from the perspective of the side to move at root"
AdjustPerspective(value, root_board, search_board) ==
  IF Turn(root_board) = BLACK THEN -value ELSE value

\* a loop that stops after the node the simulation started from
BackpropStop(node) == 0

\* the node the backpropagation loop moves to; 0 is None
BackpropNext(node) == node.parent

\* a loop that credits the parent with the child's own value
ParentValueSame(value) == value

\* "value = -value  # Flip perspective for parent"
ParentValue(value) == -value

RECURSIVE backpropagate(_, _, _)
backpropagate(t, node, value) ==
  IF node = 0 THEN t
  ELSE backpropagate([t EXCEPT ![node].visit_count = @ + 1,
                               ![node].total_value = @ + value],
                     BackpropNext(t[node]), ParentValue(value))

\* a final choice by average value: the first child with the highest average
highest_average_child(t, p) ==
  LET kids == t[p].children
  IN  IF kids = <<>> THEN 0
      ELSE kids[CHOOSE i \in 1..Len(kids) :
                  /\ \A j \in 1..Len(kids) : AverageGeq(t[kids[i]], t[kids[j]])
                  /\ \A j \in 1..(i - 1) : ~AverageGeq(t[kids[j]], t[kids[i]])]

\* max(children.values(), key=visit_count): the first child with the most visits
most_visited_child(t, p) ==
  LET kids == t[p].children
  IN  IF kids = <<>> THEN 0
      ELSE kids[CHOOSE i \in 1..Len(kids) :
                  /\ \A j \in 1..Len(kids) : t[kids[j]].visit_count <= t[kids[i]].visit_count
                  /\ \A j \in 1..(i - 1) : t[kids[j]].visit_count < t[kids[i]].visit_count]

\* the caller's position before any call
CallerPosition == <<>>

\* ---- the calls ----------------------------------------------------------------
Depths == 0..MaxDepth
Budgets == {0, 1, 2, MaxSims}
\* exploration_constant in hundredths; 141 is the default
ExplorationConstants == {0, 141}
\* (simulations, use_evaluator, exploration_constant) of the mcts_search calls;
\* a zero exploration constant is tried with the budgets up to 1
MctsConfigs ==
  {c \in [simulations : Budgets, use_evaluator : BOOLEAN,
          exploration_constant : ExplorationConstants] :
     c.exploration_constant > 0 \/ c.simulations <= 1}

\* max_depth arguments of direct quiescence calls
CapDepths == 0..MaxCap
\* alpha/beta windows of direct quiescence calls
Windows == {<<NegInf, PosInf>>, <<-200, 200>>, <<0, 400>>, <<-400, 0>>}

NoArgs == [fn |-> "none", depth |-> 0, maximizing |-> FALSE, alpha |-> NegInf,
           beta |-> PosInf, simulations |-> 0,
           use_evaluator |-> FALSE, exploration_constant |-> 0, moves |-> <<>>]

\* status: "move" a move was returned, "none" None was returned, "value" a score
\* was returned, "error" the call raised
NoRet == [status |-> "pending", move |-> None, value |-> 0, n |-> 0, d |-> 0,
          lo |-> PosInf, qlo |-> PosInf, moves |-> <<>>, scores |-> <<>>]

\* ---- uci/engine.py: UCIEngine.__init__ -------------------------------------------
\* search_depth, engine_type: the fields of that name; command: the command the
\* loop handled last; out: the lines it wrote for it; before: the board when the
\* command was read; configured: the value of the last setoption that set
\* search_depth.  PGN export, the UCI log and debug output stay switched off.
NewEngine ==
  [search_depth |-> DefaultSearchDepth, engine_type |-> "minimax",
   command |-> "none", out |-> <<>>, before |-> <<>>,
   configured |-> DefaultSearchDepth]

\* no move has been requested before
NoEarlier == [args |-> NoArgs, status |-> "pending", move |-> None]

Init ==
  /\ earlier = NoEarlier
  /\ engine = NewEngine
  /\ seed \in 0..MaxSeed
  /\ rootTurn \in BOOLEAN
  /\ board = CallerPosition
  /\ pc = "idle"
  /\ args = NoArgs
  /\ ret = NoRet
  /\ tree = <<>>
  /\ iter = 0
  /\ simLog = <<>>

\* the caller's variables once best_move_minimax has returned r
BestMoveReturned(depth, r) ==
  /\ args' = [NoArgs EXCEPT !.fn = "best_move_minimax", !.depth = depth]
  /\ ret' = [status |-> IF r.move = None THEN "none" ELSE "move",
             move |-> r.move, value |-> r.score, n |-> r.n, d |-> r.d,
             lo |-> r.lo, qlo |-> r.qlo, moves |-> <<>>, scores |-> <<>>]
  /\ board' = r.b

\* best_move_minimax(board, depth)
CallBestMoveMinimax ==
  /\ pc = "idle"
  /\ \E depth \in Depths :
       \* a depth below 1 never meets the depth == 0 test and the search runs to
       \* the end of every line: explored on the games whose lines end early
       /\ depth >= 1 \/ ~LongGame
       /\ BestMoveReturned(depth, best_move_minimax(board, depth))
  /\ pc' = "minimax_done"
  /\ UNCHANGED <<engine, earlier, seed, rootTurn, tree, iter, simLog>>

\* the board on which the search first calls evaluate: the first ordered move is
\* pushed ply by ply until the game is over or the depth is used up
RECURSIVE FirstEvaluated(_, _)
FirstEvaluated(b, depth) ==
  IF is_game_over(b) \/ depth = 0 \/ legal_moves(b) = <<>> THEN b
  ELSE FirstEvaluated(Push(b, order_moves(b, legal_moves(b))[1]), MinimaxChildDepth(depth))

\* best_move_minimax(board, depth) when the first evaluate call of the search
\* raises: no frame catches the exception and none pops on the way out
BestMoveMinimaxRaises ==
  /\ pc = "idle"
  /\ ~SingleMoveShortcut(legal_moves(board))
  /\ legal_moves(board) # <<>>
  /\ \E depth \in Depths :
       /\ depth >= 1
       /\ args' = [NoArgs EXCEPT !.fn = "best_move_minimax", !.depth = depth]
       /\ board' = FirstEvaluated(Push(board, order_moves(board, legal_moves(board))[1]),
                                  depth - 1)
  /\ ret' = [NoRet EXCEPT !.status = "error"]
  /\ pc' = "minimax_raised"
  /\ UNCHANGED <<engine, earlier, seed, rootTurn, tree, iter, simLog>>

\* the caller's variables once minimax or quiescence_search has returned r
ValueReturned(r) ==
  /\ ret' = [status |-> "value", move |-> None, value |-> r.v, n |-> r.n,
             d |-> r.d, lo |-> r.lo, qlo |-> r.qlo, moves |-> r.moves,
             scores |-> r.scores]
  /\ board' = r.b

\* minimax(board, depth, -inf, +inf, maximizing)
CallMinimax ==
  /\ pc = "idle"
  /\ \E depth \in Depths, maximizing \in BOOLEAN :
       /\ args' = [NoArgs EXCEPT !.fn = "minimax", !.depth = depth,
                                 !.maximizing = maximizing]
       /\ ValueReturned(minimax(board, depth, NegInf, PosInf, maximizing))
  /\ pc' = "value_done"
  /\ UNCHANGED <<engine, earlier, seed, rootTurn, tree, iter, simLog>>

\* alpha/beta windows a minimax frame is entered with below the root
NarrowWindows == Windows \ {<<NegInf, PosInf>>}

\* minimax(board, depth, alpha, beta, maximizing) with a window that is not the
\* whole line, as the frames below the root are called
CallMinimaxWindow ==
  /\ pc = "idle"
  /\ \E depth \in Depths, maximizing \in BOOLEAN, w \in NarrowWindows :
       /\ args' = [NoArgs EXCEPT !.fn = "minimax", !.depth = depth,
                                 !.maximizing = maximizing, !.alpha = w[1],
                                 !.beta = w[2]]
       /\ ValueReturned(minimax(board, depth, w[1], w[2], maximizing))
  /\ pc' = "window_done"
  /\ UNCHANGED <<engine, earlier, seed, rootTurn, tree, iter, simLog>>

\* quiescence_search(board, alpha, beta, maximizing, max_depth=max_depth)
CallQuiescence ==
  /\ pc = "idle"
  /\ \E max_depth \in CapDepths, maximizing \in BOOLEAN, w \in Windows :
       /\ args' = [NoArgs EXCEPT !.fn = "quiescence_search", !.depth = max_depth,
                                 !.maximizing = maximizing, !.alpha = w[1],
                                 !.beta = w[2]]
       /\ ValueReturned(quiescence_search(board, w[1], w[2], maximizing, max_depth))
  /\ pc' = "quiescence_done"
  /\ UNCHANGED <<engine, earlier, seed, rootTurn, tree, iter, simLog>>

\* mcts_search up to the simulation loop (best_move_mcts passes its arguments on
\* and leaves the exploration constant at its default)
MctsStart ==
  /\ pc = "idle"
  /\ \E c \in MctsConfigs :
       args' = [NoArgs EXCEPT !.fn = "mcts_search", !.simulations = c.simulations,
                              !.use_evaluator = c.use_evaluator,
                              !.exploration_constant = c.exploration_constant]
  /\ IF is_game_over(board)
     THEN /\ pc' = "mcts_done"
          /\ ret' = [NoRet EXCEPT !.status = "none"]
          /\ tree' = tree
     ELSE /\ pc' = "mcts_running"
          /\ ret' = ret
          /\ \E untried \in Shuffles(legal_moves(board)) :
               tree' = <<NewNode(board, 0, None, untried)>>
  /\ iter' = 0
  /\ UNCHANGED <<engine, earlier, seed, rootTurn, board, simLog>>

\* one pass of the simulation loop
MctsSimulate ==
  /\ pc = "mcts_running"
  /\ iter < args.simulations
  /\ \E sel \in Selection(tree, 1, BoardCopy(board), args.exploration_constant,
                          ~args.use_evaluator, <<>>) :
       LET grow == ~is_terminal(tree[sel.node]) /\ ~is_fully_expanded(tree[sel.node])
           moves == tree[sel.node].untried_moves
           search_board == IF grow THEN Push(sel.search_board, moves[Len(moves)])
                           ELSE sel.search_board
       IN  \E untried \in (IF grow THEN Shuffles(legal_moves(search_board)) ELSE {<<>>}) :
             LET t1 == IF grow THEN expand(tree, sel.node, untried) ELSE tree
                 node == IF grow THEN Len(t1) ELSE sel.node
             IN  \E rollout \in Rollouts(search_board, args.use_evaluator) :
                   LET value == AdjustPerspective(rollout, board, search_board)
                   IN  /\ tree' = backpropagate(t1, node, value)
                       /\ simLog' = Append(simLog,
                            [node |-> node, turn |-> Turn(t1[node].board),
                             ply |-> Len(t1[node].board),
                             rollout |-> rollout, value |-> value,
                             walk |-> sel.walk])
  /\ iter' = iter + 1
  /\ UNCHANGED <<engine, earlier, seed, rootTurn, board, pc, args, ret>>

\* after the loop: "Return most visited move"
MctsReturn ==
  /\ pc = "mcts_running"
  /\ iter >= args.simulations
  /\ LET best == most_visited_child(tree, 1)
     IN  ret' = [NoRet EXCEPT !.status = IF best = 0 THEN "none" ELSE "move",
                              !.move = IF best = 0 THEN None ELSE tree[best].move]
  /\ pc' = "mcts_done"
  /\ UNCHANGED <<engine, earlier, seed, rootTurn, board, args, tree, iter, simLog>>

\* engine/evaluator.py best_move_material: the moves random.choice(best_moves)
\* can return, None without a legal move
best_move_material(b) ==
  LET legal == legal_moves(b)
      score(i) == evaluate(Push(BoardCopy(b), legal[i]))
      best(i) == \A j \in 1..Len(legal) :
                   IF Turn(b) = WHITE THEN score(j) <= score(i) ELSE score(i) <= score(j)
  IN  IF legal = <<>> THEN {None}
      ELSE {legal[i] : i \in {k \in 1..Len(legal) : best(k)}}

\* best_move_material(board)
CallBestMoveMaterial ==
  /\ pc = "idle"
  /\ args' = [NoArgs EXCEPT !.fn = "best_move_material"]
  /\ \E move \in best_move_material(board) :
       ret' = [NoRet EXCEPT !.status = IF move = None THEN "none" ELSE "move",
                            !.move = move]
  /\ pc' = "material_done"
  /\ UNCHANGED <<engine, earlier, seed, rootTurn, board, tree, iter, simLog>>

Next ==
  \/ CallBestMoveMinimax
  \/ BestMoveMinimaxRaises
  \/ CallMinimax
  \/ CallMinimaxWindow
  \/ CallQuiescence
  \/ MctsStart
  \/ MctsSimulate
  \/ MctsReturn
  \/ CallBestMoveMaterial

Spec == Init /\ [][Next]_vars

\* ---- the caller asks for a move a second time ---------------------------------
MoveCallReturned == pc \in {"minimax_done", "mcts_done", "material_done"}

\* the caller keeps the answer and is ready to call again on the same position
CallAgain ==
  /\ MoveCallReturned
  /\ earlier = NoEarlier
  /\ board = CallerPosition
  /\ earlier' = [args |-> args, status |-> ret.status, move |-> ret.move]
  /\ pc' = "idle"
  /\ args' = NoArgs
  /\ ret' = NoRet
  /\ tree' = <<>>
  /\ iter' = 0
  /\ simLog' = <<>>
  /\ UNCHANGED <<engine, seed, rootTurn, board>>

ReplayNext == Next \/ CallAgain

ReplaySpec == Init /\ [][ReplayNext]_vars

\* ---- move lists of crowded positions ---------------------------------------------
CrowdedSeeds == CrowdedBase..(CrowdedBase + MaxCrowded)

MovesInit ==
  /\ earlier = NoEarlier
  /\ engine = NewEngine
  /\ seed \in CrowdedSeeds
  /\ rootTurn \in BOOLEAN
  /\ board = CallerPosition
  /\ pc = "idle"
  /\ args = NoArgs
  /\ ret = NoRet
  /\ tree = <<>>
  /\ iter = 0
  /\ simLog = <<>>

\* the lists order_moves is given: list(board.legal_moves) by minimax and the root,
\* noisy_moves by quiescence_search
MoveLists(b) == {legal_moves(b), NoisyScan(b, legal_moves(b), 1, <<>>).moves}

\* order_moves(board, moves): the priorities are computed on copies of the board
CallOrderMoves ==
  /\ pc = "idle"
  /\ \E moves \in MoveLists(board) :
       /\ args' = [NoArgs EXCEPT !.fn = "order_moves", !.moves = moves]
       /\ ret' = [NoRet EXCEPT !.status = "value", !.moves = order_moves(board, moves)]
  /\ pc' = "ordered"
  /\ UNCHANGED <<engine, earlier, seed, rootTurn, board, tree, iter, simLog>>

MovesNext == CallOrderMoves \/ CallQuiescence

MovesSpec == MovesInit /\ [][MovesNext]_vars

\* ---- uci/engine.py: the command loop ------------------------------------------
EngineTypes == {"random", "material", "minimax", "mcts"}

\* a token of a command line as int() sees it: an integer, or text that makes
\* int() raise ValueError
Number(n) == [given |-> TRUE, int |-> TRUE, n |-> n]
NotANumber == [given |-> TRUE, int |-> FALSE, n |-> 0]
\* no "depth" token in the go command (or none after it: IndexError)
NoDepth == [given |-> FALSE, int |-> FALSE, n |-> 0]

\* values of "setoption name Search Depth value ..."
DepthValues ==
  {Number(n) : n \in {MinSearchDepth - 1, MinSearchDepth, MaxDepth, MaxSearchDepth + 1}}
    \cup {NotANumber}
\* values of "setoption name Engine Type value ..."
TypeValues == EngineTypes \cup {"stockfish"}
\* what follows "go"
GoArgs == {Number(n) : n \in Depths} \cup {NotANumber, NoDepth}

\* the positions a position command can set up: legal moves played from the start
RECURSIVE Lines(_, _)
Lines(b, plies) ==
  IF plies = 0 THEN {b}
  ELSE {b} \cup UNION {Lines(Push(b, legal_moves(b)[i]), plies - 1) :
                         i \in 1..NumLegal(b)}
Positions == Lines(CallerPosition, WidePly)

\* lines written to stdout
InfoLine(depth, score) == [line |-> "info", depth |-> depth, score |-> score, move |-> None]
\* f"bestmove {best_move.uci()}"
BestMoveLine(move) == [line |-> "bestmove", depth |-> 0, score |-> 0, move |-> move]
\* "bestmove 0000"
NullMoveLine == [line |-> "bestmove 0000", depth |-> 0, score |-> 0, move |-> None]
\* "option name Search Depth type spin default 3 min 1 max 6", "uciok", "readyok"
OptionLine ==
  [line |-> "option name Search Depth", depth |-> DefaultSearchDepth,
   score |-> 0, move |-> None]
OkLine(text) == [line |-> text, depth |-> 0, score |-> 0, move |-> None]

\* the engine once a command has been handled
Handled(e, command, before, out) ==
  [e EXCEPT !.command = command, !.before = before, !.out = out]

UciInit ==
  /\ earlier = NoEarlier
  /\ engine = NewEngine
  /\ seed \in 0..MaxSeed
  /\ rootTurn \in BOOLEAN
  /\ board = CallerPosition
  /\ pc = "reading"
  /\ args = NoArgs
  /\ ret = NoRet
  /\ tree = <<>>
  /\ iter = 0
  /\ simLog = <<>>

\* "uci": handle_uci
UciIdentify ==
  /\ pc = "reading"
  /\ engine' = Handled(engine, "uci", board, <<OptionLine, OkLine("uciok")>>)
  /\ UNCHANGED <<earlier, seed, rootTurn, board, pc, args, ret, tree, iter, simLog>>

\* "isready": handle_isready
UciIsReady ==
  /\ pc = "reading"
  /\ engine' = Handled(engine, "isready", board, <<OkLine("readyok")>>)
  /\ UNCHANGED <<earlier, seed, rootTurn, board, pc, args, ret, tree, iter, simLog>>

\* handle_setoption("Search Depth", value)
SetSearchDepth(e, value) ==
  IF ~value.int THEN e
  ELSE IF MinSearchDepth <= value.n /\ value.n <= MaxSearchDepth
    THEN [e EXCEPT !.search_depth = value.n, !.configured = value.n]
  ELSE e

\* handle_setoption("Engine Type", value)
SetEngineType(e, value) ==
  IF value \in EngineTypes THEN [e EXCEPT !.engine_type = value] ELSE e

\* "setoption name Search Depth value <value>"
UciSetSearchDepth ==
  /\ pc = "reading"
  /\ \E value \in DepthValues :
       engine' = Handled(SetSearchDepth(engine, value), "setoption", board, <<>>)
  /\ UNCHANGED <<earlier, seed, rootTurn, board, pc, args, ret, tree, iter, simLog>>

\* "setoption name Engine Type value <value>"
UciSetEngineType ==
  /\ pc = "reading"
  /\ \E value \in TypeValues :
       engine' = Handled(SetEngineType(engine, value), "setoption", board, <<>>)
  /\ UNCHANGED <<earlier, seed, rootTurn, board, pc, args, ret, tree, iter, simLog>>

\* "ucinewgame": handle_ucinewgame
UciNewGame ==
  /\ pc = "reading"
  /\ board' = CallerPosition
  /\ engine' = Handled(engine, "ucinewgame", board, <<>>)
  /\ UNCHANGED <<earlier, seed, rootTurn, pc, args, ret, tree, iter, simLog>>

\* "position startpos moves ...": handle_position
UciPosition ==
  /\ pc = "reading"
  /\ \E position \in Positions :
       board' = position
  /\ engine' = Handled(engine, "position", board, <<>>)
  /\ UNCHANGED <<earlier, seed, rootTurn, pc, args, ret, tree, iter, simLog>>

\* get_best_move: the (move, board afterwards) pairs it can end with; mcts_search
\* with 50..1000 simulations is taken to return any of the legal moves
get_best_move(b, e) ==
  LET unchanged(moves) == {[move |-> m, b |-> b] : m \in moves}
      legal == {legal_moves(b)[i] : i \in 1..NumLegal(b)}
  IN  IF is_game_over(b) THEN unchanged({None})
      ELSE IF legal_moves(b) = <<>> THEN unchanged({None})
      ELSE IF e.engine_type = "random" THEN unchanged(legal)
      ELSE IF e.engine_type = "material" THEN unchanged(best_move_material(b))
      ELSE IF e.engine_type = "minimax"
        THEN LET r == best_move_minimax(b, e.search_depth)
             IN  {[move |-> r.move, b |-> r.b]}
      ELSE unchanged(legal)

\* "Parse go parameters": the local search_depth
GoDepth(e, arg) == IF arg.given /\ arg.int THEN arg.n ELSE e.search_depth

\* what handle_go writes once get_best_move has returned best_move
GoOutput(e, b, search_depth, best_move) ==
  IF best_move # None
  THEN (IF e.engine_type = "minimax"
        THEN <<InfoLine(search_depth, evaluate(b))>> ELSE <<>>)
         \o <<BestMoveLine(best_move)>>
  ELSE <<NullMoveLine>>

\* "go ...": handle_go when get_best_move returns
UciGo ==
  /\ pc = "reading"
  /\ \E arg \in GoArgs :
       LET search_depth == GoDepth(engine, arg)
           original_depth == engine.search_depth
           searching == [engine EXCEPT !.search_depth = search_depth]
       IN  \* a minimax search with depth < 1 runs to the end of every line:
           \* explored on the games whose lines end early
           /\ (engine.engine_type = "minimax" /\ search_depth < 1) => ~LongGame
           /\ \E best \in get_best_move(board, searching) :
                /\ board' = best.b
                /\ engine' = Handled([searching EXCEPT !.search_depth = original_depth],
                                     "go", board,
                                     GoOutput(engine, best.b, search_depth, best.move))
  /\ UNCHANGED <<earlier, seed, rootTurn, pc, args, ret, tree, iter, simLog>>

\* "go ...": handle_go when the first evaluate call of the minimax search raises:
\* the exception passes "Restore original depth" and everything after it, and the
\* except clause of run() goes on to the next command
UciGoRaises ==
  /\ pc = "reading"
  /\ engine.engine_type = "minimax"
  /\ ~is_game_over(board)
  /\ ~SingleMoveShortcut(legal_moves(board))
  /\ legal_moves(board) # <<>>
  /\ Len(board) <= WidePly
  /\ \E arg \in GoArgs :
       LET search_depth == GoDepth(engine, arg)
       IN  /\ search_depth >= 1
           /\ board' = FirstEvaluated(Push(board, order_moves(board, legal_moves(board))[1]),
                                      search_depth - 1)
           /\ engine' = Handled([engine EXCEPT !.search_depth = search_depth],
                                "go", board, <<>>)
  /\ UNCHANGED <<earlier, seed, rootTurn, pc, args, ret, tree, iter, simLog>>

UciNext ==
  \/ UciIdentify
  \/ UciIsReady
  \/ UciSetSearchDepth
  \/ UciSetEngineType
  \/ UciNewGame
  \/ UciPosition
  \/ UciGo
  \/ UciGoRaises

UciSpec == UciInit /\ [][UciNext]_vars

\* ---- reference: minimax without pruning ---------------------------------------
SetMax(S) == CHOOSE x \in S : \A y \in S : y <= x
SetMin(S) == CHOOSE x \in S : \A y \in S : x <= y

\* the quiescence value: stand pat or the best noisy reply, no window
RECURSIVE FullQuiescence(_, _, _)
FullQuiescence(b, maximizing, max_depth) ==
  IF is_game_over(b) \/ max_depth <= 0 THEN evaluate(b)
  ELSE LET noisy == NoisyScan(b, legal_moves(b), 1, <<>>).moves
           replies == {FullQuiescence(Push(b, noisy[i]), ~maximizing, max_depth - 1) :
                         i \in 1..Len(noisy)}
       IN  IF maximizing THEN SetMax(replies \cup {evaluate(b)})
           ELSE SetMin(replies \cup {evaluate(b)})

\* the minimax value over the set of legal moves, every branch searched
RECURSIVE FullMinimax(_, _, _)
FullMinimax(b, depth, maximizing) ==
  IF is_game_over(b) \/ NumLegal(b) = 0 THEN evaluate(b)
  ELSE IF depth = 0 THEN FullQuiescence(b, maximizing, QuiescenceMaxDepth)
  ELSE LET replies == {FullMinimax(Push(b, m), depth - 1, ~maximizing) :
                         m \in 1..NumLegal(b)}
       IN  IF maximizing THEN SetMax(replies) ELSE SetMin(replies)

\* calls made by the search without pruning
RECURSIVE SumOver(_, _)
SumOver(f, n) == IF n = 0 THEN 0 ELSE f[n] + SumOver(f, n - 1)

RECURSIVE FullQuiescenceNodes(_, _)
FullQuiescenceNodes(b, max_depth) ==
  IF is_game_over(b) \/ max_depth <= 0 THEN 1
  ELSE LET noisy == NoisyScan(b, legal_moves(b), 1, <<>>).moves
       IN  1 + SumOver([i \in 1..Len(noisy) |->
                          FullQuiescenceNodes(Push(b, noisy[i]), max_depth - 1)],
                       Len(noisy))

RECURSIVE FullMinimaxNodes(_, _)
FullMinimaxNodes(b, depth) ==
  IF is_game_over(b) \/ NumLegal(b) = 0 THEN 1
  ELSE IF depth = 0 THEN 1 + FullQuiescenceNodes(b, QuiescenceMaxDepth)
  ELSE 1 + SumOver([m \in 1..NumLegal(b) |-> FullMinimaxNodes(Push(b, m), depth - 1)],
                   NumLegal(b))

\* ---- engine/evaluator.py on piece placements -------------------------------
\* A chess.Board as the evaluator reads it: pieces (square -> piece), turn,
\* castling (the rights of the FEN), fullmove_number, and the answers of the
\* rules engine for the position: checkmate, stalemate, check and mobility
\* (the number of legal moves).
Squares == 0..63
square(file, rank) == rank * 8 + file
square_file(sq) == sq % 8
square_rank(sq) == sq \div 8

PieceTypes == {"pawn", "knight", "bishop", "rook", "queen", "king"}
NoPiece == [piece_type |-> "none", color |-> WHITE]
Piece(piece_type, color) == [piece_type |-> piece_type, color |-> color]
piece_at(p, sq) == p.pieces[sq]

PieceValuesHeavyBishop(piece_type) ==
  CASE piece_type = "pawn" -> 100
    [] piece_type = "knight" -> 300
    [] piece_type = "bishop" -> 330
    [] piece_type = "rook" -> 500
    [] piece_type = "queen" -> 900
    [] piece_type = "king" -> 0

PIECE_VALUES(piece_type) ==
  CASE piece_type = "pawn" -> 100
    [] piece_type = "knight" -> 300
    [] piece_type = "bishop" -> 300
    [] piece_type = "rook" -> 500
    [] piece_type = "queen" -> 900
    [] piece_type = "king" -> 0

CENTER_SQUARES == {square(3, 3), square(4, 3), square(3, 4), square(4, 4)}
EXTENDED_CENTER == {square(f, r) : f \in 2..5, r \in 2..5}
WHITE_KNIGHT_START == {square(1, 0), square(6, 0)}
BLACK_KNIGHT_START == {square(1, 7), square(6, 7)}
WHITE_BISHOP_START == {square(2, 0), square(5, 0)}
BLACK_BISHOP_START == {square(2, 7), square(5, 7)}

\* the contribution of the piece on one square, added for White, subtracted for Black
Signed(piece, amount) == IF piece.color = WHITE THEN amount ELSE -amount

MaterialAt(p, sq) ==
  LET piece == piece_at(p, sq)
  IN  IF piece = NoPiece THEN 0 ELSE Signed(piece, PIECE_VALUES(piece.piece_type))

evaluate_material(p) == SumOver([i \in 1..64 |-> MaterialAt(p, i - 1)], 64)

CenterBonus(piece) ==
  IF piece.piece_type = "pawn" THEN 30
  ELSE IF piece.piece_type \in {"knight", "bishop"} THEN 20
  ELSE 10

ExtendedBonus(piece) ==
  IF piece.piece_type = "pawn" THEN 10
  ELSE IF piece.piece_type \in {"knight", "bishop"} THEN 10
  ELSE 5

CenterAt(p, sq) ==
  LET piece == piece_at(p, sq)
  IN  IF piece = NoPiece THEN 0
      ELSE IF sq \in CENTER_SQUARES THEN Signed(piece, CenterBonus(piece))
      ELSE IF sq \in EXTENDED_CENTER THEN Signed(piece, ExtendedBonus(piece))
      ELSE 0

evaluate_center_control(p) == SumOver([i \in 1..64 |-> CenterAt(p, i - 1)], 64)

\* the pieces of one type and colour that stand on the given squares
CountOn(p, squares, piece_type, color) ==
  Cardinality({sq \in squares : piece_at(p, sq) = Piece(piece_type, color)})

evaluate_piece_development(p) ==
  IF p.fullmove_number <= 10
  THEN - 15 * CountOn(p, WHITE_KNIGHT_START, "knight", WHITE)
       + 15 * CountOn(p, BLACK_KNIGHT_START, "knight", BLACK)
       - 10 * CountOn(p, WHITE_BISHOP_START, "bishop", WHITE)
       + 10 * CountOn(p, BLACK_BISHOP_START, "bishop", BLACK)
  ELSE 0

NoSquare == -1
\* board.king(color): the square of the king, None without one
king(p, color) ==
  LET kings == {sq \in Squares : piece_at(p, sq) = Piece("king", color)}
  IN  IF kings = {} THEN NoSquare ELSE CHOOSE sq \in kings : \A o \in kings : o <= sq

\* the rules engine keeps a castling right only while king and rook stand on
\* their original squares
has_kingside_castling_rights(p, color) ==
  LET rank == IF color = WHITE THEN 0 ELSE 7
  IN  /\ (IF color = WHITE THEN "K" ELSE "k") \in p.castling
      /\ piece_at(p, square(4, rank)) = Piece("king", color)
      /\ piece_at(p, square(7, rank)) = Piece("rook", color)

has_queenside_castling_rights(p, color) ==
  LET rank == IF color = WHITE THEN 0 ELSE 7
  IN  /\ (IF color = WHITE THEN "Q" ELSE "q") \in p.castling
      /\ piece_at(p, square(4, rank)) = Piece("king", color)
      /\ piece_at(p, square(0, rank)) = Piece("rook", color)

CastlingRightsScore(p) ==
  (IF has_kingside_castling_rights(p, WHITE) THEN 10 ELSE 0)
  + (IF has_queenside_castling_rights(p, WHITE) THEN 5 ELSE 0)
  - (IF has_kingside_castling_rights(p, BLACK) THEN 10 ELSE 0)
  - (IF has_queenside_castling_rights(p, BLACK) THEN 5 ELSE 0)

\* 30 for a king on its castled square and 10 for each pawn of the shield
CastledScore(p, color, files, pawn_rank) ==
  30 + 10 * CountOn(p, {square(f, pawn_rank) : f \in files}, "pawn", color)

WhiteKingScore(p) ==
  LET white_king_square == king(p, WHITE)
  IN  (IF white_king_square = square(6, 0) THEN CastledScore(p, WHITE, {5, 6, 7}, 1)
       ELSE IF white_king_square = square(2, 0) THEN CastledScore(p, WHITE, {0, 1, 2}, 1)
       ELSE 0)
      - (IF white_king_square \in CENTER_SQUARES \/ white_king_square \in EXTENDED_CENTER
         THEN 40 ELSE 0)

BlackKingScore(p) ==
  LET black_king_square == king(p, BLACK)
  IN  - (IF black_king_square = square(6, 7) THEN CastledScore(p, BLACK, {5, 6, 7}, 6)
         ELSE IF black_king_square = square(2, 7) THEN CastledScore(p, BLACK, {0, 1, 2}, 6)
         ELSE 0)
      + (IF black_king_square \in CENTER_SQUARES \/ black_king_square \in EXTENDED_CENTER
         THEN 40 ELSE 0)

evaluate_king_safety(p) == CastlingRightsScore(p) + WhiteKingScore(p) + BlackKingScore(p)

\* the ranks of the pawns of one colour on a file
PawnsOnFile(p, file, color) ==
  {rank \in 0..7 : piece_at(p, square(file, rank)) = Piece("pawn", color)}

AdjacentFiles(file) == {f \in {file - 1, file + 1} : f \in 0..7}

DoubledPenalty(pawns) == IF Cardinality(pawns) > 1 THEN 20 * (Cardinality(pawns) - 1) ELSE 0

IsolatedPenalty(p, file, color) ==
  LET pawns == PawnsOnFile(p, file, color)
      has_support == \E f \in AdjacentFiles(file) : PawnsOnFile(p, f, color) # {}
  IN  IF pawns # {} /\ ~has_support THEN 15 * Cardinality(pawns) ELSE 0

\* no enemy pawn ahead of the pawn on its own file or on an adjacent file
WhitePassed(p, file, white_rank) ==
  \A f \in {file} \cup AdjacentFiles(file) :
    \A r \in PawnsOnFile(p, f, BLACK) : r <= white_rank

BlackPassed(p, file, black_rank) ==
  \A f \in {file} \cup AdjacentFiles(file) :
    \A r \in PawnsOnFile(p, f, WHITE) : r >= black_rank

WhitePassedBonus(p, file, rank) ==
  IF piece_at(p, square(file, rank)) = Piece("pawn", WHITE) /\ WhitePassed(p, file, rank)
  THEN 20 + rank * 10 ELSE 0

\* a bonus that grows with the rank index for Black as it does for White
BlackPassedBonusByRank(p, file, rank) ==
  IF piece_at(p, square(file, rank)) = Piece("pawn", BLACK) /\ BlackPassed(p, file, rank)
  THEN 20 + rank * 10 ELSE 0

BlackPassedBonus(p, file, rank) ==
  IF piece_at(p, square(file, rank)) = Piece("pawn", BLACK) /\ BlackPassed(p, file, rank)
  THEN 20 + (7 - rank) * 10 ELSE 0

PawnStructureOnFile(p, file) ==
  - DoubledPenalty(PawnsOnFile(p, file, WHITE))
  + DoubledPenalty(PawnsOnFile(p, file, BLACK))
  - IsolatedPenalty(p, file, WHITE)
  + IsolatedPenalty(p, file, BLACK)
  + SumOver([r \in 1..8 |-> WhitePassedBonus(p, file, r - 1)], 8)
  - SumOver([r \in 1..8 |-> BlackPassedBonus(p, file, r - 1)], 8)

evaluate_pawn_structure(p) == SumOver([f \in 1..8 |-> PawnStructureOnFile(p, f - 1)], 8)

\* python-chess reports insufficient material when no sequence of moves can
\* mate; the placements used here qualify exactly when no pawn, rook or queen
\* is left and at most one knight or bishop
is_insufficient(p) ==
  /\ \A sq \in Squares : piece_at(p, sq).piece_type \notin {"pawn", "rook", "queen"}
  /\ Cardinality({sq \in Squares : piece_at(p, sq).piece_type \in {"knight", "bishop"}}) <= 1

PositionalTerms(p) ==
  evaluate_material(p) + evaluate_center_control(p) + evaluate_piece_development(p)
  + evaluate_king_safety(p) + evaluate_pawn_structure(p)

\* evaluate(board) for a board given by its placement
evaluate_board(p) ==
  Evaluation(p.checkmate, p.stalemate \/ is_insufficient(p), p.turn,
             PositionalTerms(p), p.check, p.mobility)

\* ---- evaluating boards built from a FEN -----------------------------------
\* chess.Board() (engine/evaluator.py:511)
StartingPosition ==
  [rows |-> << <<"r", "n", "b", "q", "k", "b", "n", "r">>,
              <<"p", "p", "p", "p", "p", "p", "p", "p">>,
              <<".", ".", ".", ".", ".", ".", ".", ".">>,
              <<".", ".", ".", ".", ".", ".", ".", ".">>,
              <<".", ".", ".", ".", ".", ".", ".", ".">>,
              <<".", ".", ".", ".", ".", ".", ".", ".">>,
              <<"P", "P", "P", "P", "P", "P", "P", "P">>,
              <<"R", "N", "B", "Q", "K", "B", "N", "R">> >>,
   castling |-> {"K", "Q", "k", "q"}]

\* search/minimax.py:333
BackRankPosition ==
  [rows |-> << <<".", ".", ".", ".", ".", ".", "k", ".">>,
              <<".", ".", ".", ".", ".", "p", "p", "p">>,
              <<".", ".", ".", ".", ".", ".", ".", ".">>,
              <<".", ".", ".", ".", ".", ".", ".", ".">>,
              <<".", ".", ".", ".", ".", ".", ".", ".">>,
              <<".", ".", ".", ".", ".", ".", ".", ".">>,
              <<".", ".", ".", ".", ".", "P", "P", "P">>,
              <<".", ".", ".", ".", "R", ".", "K", ".">> >>,
   castling |-> {}]

\* search/minimax.py:358
ScholarsPosition ==
  [rows |-> << <<"r", ".", "b", "q", "k", "b", ".", "r">>,
              <<"p", "p", "p", "p", ".", "p", "p", "p">>,
              <<".", ".", "n", ".", ".", "n", ".", ".">>,
              <<".", ".", ".", ".", "p", ".", ".", "Q">>,
              <<".", ".", "B", ".", "P", ".", ".", ".">>,
              <<".", ".", ".", ".", ".", ".", ".", ".">>,
              <<"P", "P", "P", "P", ".", "P", "P", "P">>,
              <<"R", "N", "B", ".", "K", ".", "N", "R">> >>,
   castling |-> {"K", "Q", "k", "q"}]

\* test/tactical_suite.py:139
ForkPosition ==
  [rows |-> << <<".", ".", "k", "r", ".", ".", ".", "r">>,
              <<"p", "p", "p", ".", ".", "p", ".", "p">>,
              <<".", ".", ".", "b", ".", "n", "p", ".">>,
              <<".", ".", ".", "N", "p", ".", ".", ".">>,
              <<".", ".", "P", ".", ".", ".", ".", ".">>,
              <<".", ".", "N", ".", ".", ".", ".", ".">>,
              <<"P", "P", ".", ".", ".", "P", "P", "P">>,
              <<".", ".", "K", "R", ".", ".", ".", "R">> >>,
   castling |-> {}]

\* test/tactical_suite.py:319
PawnRacePosition ==
  [rows |-> << <<".", ".", ".", ".", ".", ".", ".", ".">>,
              <<"p", ".", ".", ".", ".", ".", ".", ".">>,
              <<".", ".", ".", ".", ".", ".", ".", ".">>,
              <<".", ".", ".", ".", ".", ".", ".", ".">>,
              <<".", ".", ".", ".", ".", ".", ".", ".">>,
              <<".", ".", ".", ".", ".", ".", ".", ".">>,
              <<".", ".", ".", ".", ".", ".", ".", "P">>,
              <<"k", ".", ".", ".", ".", ".", "K", ".">> >>,
   castling |-> {}]

\* king and knight against king
KnightEndingPosition ==
  [rows |-> << <<".", ".", ".", ".", ".", ".", ".", ".">>,
              <<".", ".", ".", ".", ".", ".", ".", ".">>,
              <<".", ".", ".", ".", "k", ".", ".", ".">>,
              <<".", ".", ".", ".", ".", ".", ".", ".">>,
              <<".", ".", ".", ".", ".", ".", ".", ".">>,
              <<".", ".", ".", "N", ".", ".", ".", ".">>,
              <<".", ".", ".", ".", ".", ".", ".", ".">>,
              <<".", ".", ".", ".", "K", ".", ".", ".">> >>,
   castling |-> {}]

\* the largest material one side can hold
NineQueensPosition ==
  [rows |-> << <<".", ".", ".", ".", "k", ".", ".", ".">>,
              <<".", ".", ".", ".", ".", ".", ".", ".">>,
              <<".", ".", ".", ".", ".", ".", ".", ".">>,
              <<".", ".", ".", ".", ".", ".", ".", ".">>,
              <<".", ".", ".", ".", ".", ".", ".", ".">>,
              <<".", ".", ".", ".", ".", ".", ".", ".">>,
              <<"Q", "Q", "Q", "Q", "Q", "Q", "Q", "Q">>,
              <<"R", "N", "B", "Q", "K", "B", "N", "R">> >>,
   castling |-> {}]

\* doubled, isolated and passed pawns, a king in the centre
PawnEndingPosition ==
  [rows |-> << <<".", ".", ".", ".", ".", ".", ".", ".">>,
              <<"p", ".", ".", ".", ".", "k", ".", ".">>,
              <<".", ".", ".", ".", ".", ".", ".", ".">>,
              <<".", ".", ".", "K", ".", ".", ".", ".">>,
              <<"P", ".", "P", ".", ".", ".", ".", ".">>,
              <<".", ".", "P", ".", ".", ".", ".", ".">>,
              <<".", ".", ".", ".", ".", ".", ".", ".">>,
              <<".", ".", ".", ".", ".", ".", ".", ".">> >>,
   castling |-> {}]

BasePositions ==
  {StartingPosition, BackRankPosition, ScholarsPosition, ForkPosition,
   PawnRacePosition, KnightEndingPosition, NineQueensPosition, PawnEndingPosition}

PieceOf(letter) ==
  CASE letter = "P" -> Piece("pawn", WHITE)   [] letter = "p" -> Piece("pawn", BLACK)
    [] letter = "N" -> Piece("knight", WHITE) [] letter = "n" -> Piece("knight", BLACK)
    [] letter = "B" -> Piece("bishop", WHITE) [] letter = "b" -> Piece("bishop", BLACK)
    [] letter = "R" -> Piece("rook", WHITE)   [] letter = "r" -> Piece("rook", BLACK)
    [] letter = "Q" -> Piece("queen", WHITE)  [] letter = "q" -> Piece("queen", BLACK)
    [] letter = "K" -> Piece("king", WHITE)   [] letter = "k" -> Piece("king", BLACK)
    [] OTHER -> NoPiece

\* the FEN lists rank 8 first
PiecesOf(rows) ==
  [sq \in Squares |-> PieceOf(rows[8 - square_rank(sq)][square_file(sq) + 1])]

FullMoveNumbers == {1, 11}
Mobilities == {1, 20, 218}

\* what the rules engine can answer for a placement: a mated side is in check
\* and has no move, a stalemated side is not in check and has no move, and a
\* position with insufficient material is never checkmate
RulesAnswers(pieces) ==
  LET insufficient == is_insufficient([pieces |-> pieces])
  IN  {a \in [checkmate : BOOLEAN, stalemate : BOOLEAN, check : BOOLEAN,
               mobility : {0} \cup Mobilities] :
         /\ a.checkmate <=> (a.check /\ a.mobility = 0)
         /\ a.stalemate <=> (~a.check /\ a.mobility = 0)
         /\ insufficient => ~a.checkmate}

\* chess.Board(fen)
BoardOf(pieces, turn, castling, fullmove_number) ==
  [pieces |-> pieces, turn |-> turn, castling |-> castling,
   fullmove_number |-> fullmove_number]

\* the board together with what the rules engine answers a about it
Answered(p, a) ==
  [pieces |-> p.pieces, turn |-> p.turn, castling |-> p.castling,
   fullmove_number |-> p.fullmove_number, checkmate |-> a.checkmate,
   stalemate |-> a.stalemate, check |-> a.check, mobility |-> a.mobility]

\* the FEN of p with the piece on sq left out, as in the self-test
WithoutPiece(p, sq) == [p EXCEPT !.pieces[sq] = NoPiece]

EvalInit ==
  /\ \E base \in BasePositions, turn \in BOOLEAN, n \in FullMoveNumbers :
       board = BoardOf(PiecesOf(base.rows), turn, base.castling, n)
  /\ pc = "board"
  /\ earlier = NoEarlier
  /\ engine = NewEngine
  /\ iter = 0
  /\ seed = 0
  /\ rootTurn = WHITE
  /\ args = NoArgs
  /\ ret = NoRet
  /\ tree = <<>>
  /\ simLog = <<>>

\* a board that differs from the current one by one missing White piece (not
\* the king), as the boards of the self-test do from the starting position
RemovePiece ==
  /\ pc = "board"
  /\ iter < MaxRemoved
  /\ \E sq \in Squares :
       /\ piece_at(board, sq).piece_type \notin {"none", "king"}
       /\ piece_at(board, sq).color = WHITE
       /\ board' = WithoutPiece(board, sq)
  /\ iter' = iter + 1
  /\ UNCHANGED <<engine, earlier, seed, rootTurn, pc, args, ret, tree, simLog>>

\* evaluate(board); the rules engine settles what the position is when asked
CallEvaluate ==
  /\ pc = "board"
  /\ pc' = "evaluated"
  /\ args' = [NoArgs EXCEPT !.fn = "evaluate"]
  /\ \E a \in RulesAnswers(board.pieces) :
       /\ board' = Answered(board, a)
       /\ ret' = [NoRet EXCEPT !.status = "value",
                               !.value = evaluate_board(Answered(board, a))]
  /\ UNCHANGED <<engine, earlier, seed, rootTurn, tree, iter, simLog>>

CallEvaluateMaterial ==
  /\ pc = "board"
  /\ pc' = "evaluated"
  /\ args' = [NoArgs EXCEPT !.fn = "evaluate_material"]
  /\ ret' = [NoRet EXCEPT !.status = "value", !.value = evaluate_material(board)]
  /\ UNCHANGED <<engine, earlier, seed, rootTurn, board, tree, iter, simLog>>

EvalNext == RemovePiece \/ CallEvaluate \/ CallEvaluateMaterial

EvalSpec == EvalInit /\ [][EvalNext]_vars

\* ---- properties ---------------------------------------------------------------
MctsStarted == args.fn = "mcts_search" /\ tree # <<>>
Nodes == DOMAIN tree

\* the rollout result entered the starting node's total_value unnegated
Kept(e) == e.value = e.rollout

\* C1: the sign with which a non-zero rollout result (White's perspective) enters
\* the statistics of the node the rollout started from depends on that node's side
\* to move only: within one search, two simulations keep or flip the sign alike
\* exactly when their starting nodes have the same side to move.
C1_SignFollowsNodeTurn ==
  \A i, j \in DOMAIN simLog :
    (simLog[i].rollout # 0 /\ simLog[j].rollout # 0)
      => ((simLog[i].turn = simLog[j].turn) <=> (Kept(simLog[i]) <=> Kept(simLog[j])))

\* C2: when best_move_minimax or mcts_search has returned (and while mcts_search
\* runs its simulations), the caller's board is the position it passed in.
C2_CallerPositionUnchanged ==
  (pc \in {"minimax_done", "mcts_running", "mcts_done"}) => board = CallerPosition

\* C2 witness: a best_move_minimax call whose search went through minimax into
\* nested quiescence calls has returned.
C2_Witness ==
  /\ pc = "minimax_done"
  /\ args.depth >= 2
  /\ ret.lo = 0
  /\ ret.qlo < QuiescenceMaxDepth
  /\ board = CallerPosition

\* C3: minimax called with depth >= 1 and the window (-inf, +inf) returns the value
\* of the unpruned minimax over the set of legal moves (quiescence at the leaves).
C3_AlphaBetaEqualsFullMinimax ==
  (pc = "value_done" /\ args.depth >= 1)
    => ret.value = FullMinimax(CallerPosition, args.depth, args.maximizing)

\* C3 witness: a depth >= 2 call that returned the unpruned value although pruning
\* spared it calls the unpruned search makes.
C3_Witness ==
  /\ pc = "value_done"
  /\ args.depth >= 2
  /\ ret.n < FullMinimaxNodes(CallerPosition, args.depth)
  /\ ret.value = FullMinimax(CallerPosition, args.depth, args.maximizing)

ValidMinimaxCall == args.fn = "best_move_minimax" /\ args.depth >= 1
ValidMctsCall ==
  args.fn = "mcts_search" /\ args.simulations >= 1 /\ args.exploration_constant > 0

\* C4: with a valid configuration, a returned call of best_move_minimax or
\* mcts_search on a position that has a legal move returns one of the legal moves.
C4_MoveWheneverLegal ==
  ((pc = "minimax_done" /\ ValidMinimaxCall) \/ (pc = "mcts_done" /\ ValidMctsCall))
    => (NumLegal(CallerPosition) >= 1
          => ret.status = "move" /\ ret.move \in 1..NumLegal(CallerPosition))

\* C5: a call with depth < 1, simulations < 1 or a non-positive exploration
\* constant raises an error and searches nothing.
C5_InvalidConfigRejected ==
  /\ (pc = "minimax_done" /\ args.depth < 1) => (ret.status = "error" /\ ret.n = 0)
  /\ (args.fn = "mcts_search" /\ pc \in {"mcts_running", "mcts_done"}
        /\ (args.simulations < 1 \/ args.exploration_constant <= 0))
       => (ret.status = "error" /\ tree = <<>>)

\* nested quiescence calls that fit between max_depth arguments hi and qlo
QuiescenceFrames(hi, qlo) == IF qlo = PosInf THEN 0 ELSE hi - qlo + 1

\* C6: in best_move_minimax with depth >= 1 no minimax call gets a depth below 0
\* and no quiescence call a max_depth below 0 or above the default, and the longest
\* chain of nested calls is no longer than the strictly decreasing arguments allow:
\* depth - lo minimax calls, then QuiescenceMaxDepth - qlo + 1 quiescence calls.
\* A direct quiescence call with max_depth k nests at most k - qlo + 1 calls.
\* A call with depth < 1 never meets depth == 0 and never enters quiescence: its
\* chain of minimax calls ends where the game ends, within MaxPly plies.
C6_SearchDepthBounded ==
  /\ (pc = "minimax_done" /\ args.depth < 1 /\ ret.n > 0)
       => /\ ret.lo < 0
          /\ ret.qlo = PosInf
          /\ ret.d <= MaxPly
  /\ (pc = "minimax_done" /\ args.depth >= 1 /\ ret.n > 0)
       => /\ ret.lo >= 0
          /\ ret.lo <= args.depth - 1
          /\ ret.qlo = PosInf \/ (ret.qlo >= 0 /\ ret.qlo <= QuiescenceMaxDepth)
          /\ ret.d <= (args.depth - ret.lo) + QuiescenceFrames(QuiescenceMaxDepth, ret.qlo)
          /\ ret.d <= args.depth + QuiescenceMaxDepth + 1
  /\ pc = "quiescence_done"
       => /\ ret.qlo >= 0
          /\ ret.qlo <= args.depth
          /\ ret.d <= QuiescenceFrames(args.depth, ret.qlo)

\* C6 witness: a search that reached depth 0 and nested three quiescence calls.
C6_Witness ==
  /\ pc = "minimax_done"
  /\ args.depth >= 2
  /\ ret.lo = 0
  /\ ret.qlo <= QuiescenceMaxDepth - 2
  /\ ret.d >= args.depth + 3

\* C7: best_move_minimax returns None when there is no legal move, and with exactly
\* one legal move and depth >= 1 returns that move without a single search call.
C7_NoMoveAndForcedMove ==
  pc = "minimax_done"
    => /\ NumLegal(CallerPosition) = 0 => (ret.status = "none" /\ ret.n = 0)
       /\ (NumLegal(CallerPosition) = 1 /\ args.depth >= 1)
            => /\ ret.status = "move"
               /\ ret.move = legal_moves(CallerPosition)[1]
               /\ ret.n = 0
               /\ ret.d = 0

\* C7 witness: a forced move was returned at a depth that would have searched.
C7_Witness ==
  /\ pc = "minimax_done"
  /\ args.depth >= 2
  /\ NumLegal(CallerPosition) = 1
  /\ ~is_game_over(CallerPosition)
  /\ ret.status = "move"
  /\ ret.n = 0

\* C8: after k simulations the root's visit_count is k; when the search returns it
\* is the number of simulations asked for.
C8_RootVisitsCountSimulations ==
  MctsStarted
    => /\ tree[1].visit_count = iter
       /\ Len(simLog) = iter
       /\ pc = "mcts_done" => iter = args.simulations

\* C8 witness: a search of three simulations has returned.
C8_Witness ==
  /\ MctsStarted
  /\ pc = "mcts_done"
  /\ iter >= 3
  /\ tree[1].visit_count = iter

\* C9: every visited node has -visit_count <= total_value <= visit_count
\* (values in thousandths).
C9_TotalValueBounded ==
  \A k \in Nodes :
    tree[k].visit_count > 0
      => /\ tree[k].total_value <= ValueScale * tree[k].visit_count
         /\ tree[k].total_value >= -(ValueScale * tree[k].visit_count)

\* the board a guided rollout from node k stops on
GuidedEnd(k) == GuidedRollout(BoardCopy(tree[k].board), 0)

\* C9 witness: a guided rollout stopped on an unfinished position whose evaluation
\* exceeds a pawn-thousand in size, and its node lies on the bound.
C9_Witness ==
  /\ MctsStarted
  /\ args.use_evaluator
  /\ \E i \in DOMAIN simLog :
       LET k == simLog[i].node
       IN  /\ ~is_game_over(GuidedEnd(k))
           /\ (evaluate(GuidedEnd(k)) > ValueScale \/ evaluate(GuidedEnd(k)) < -ValueScale)
           /\ tree[k].visit_count = 1
           /\ tree[k].total_value \in {ValueScale, -ValueScale}

RECURSIVE ChildVisits(_, _)
ChildVisits(kids, i) ==
  IF i > Len(kids) THEN 0 ELSE tree[kids[i]].visit_count + ChildVisits(kids, i + 1)

\* C10: a non-terminal node's visit_count is the sum of its children's visit
\* counts, plus 1 unless it is the root; no child has more visits than its parent.
C10_VisitsSumOverChildren ==
  \A k \in Nodes :
    /\ ~is_terminal(tree[k])
         => tree[k].visit_count
              = ChildVisits(tree[k].children, 1) + (IF k = 1 THEN 0 ELSE 1)
    /\ \A i \in 1..Len(tree[k].children) :
         tree[tree[k].children[i]].visit_count <= tree[k].visit_count

\* C10 witness: a node below the root has been visited again through a child.
C10_Witness ==
  \E k \in Nodes :
    /\ k # 1
    /\ ~is_terminal(tree[k])
    /\ tree[k].children # <<>>
    /\ tree[k].visit_count = 2
    /\ tree[1].visit_count >= 2

\* the root moves that deliver checkmate at once
MatingMoves(b) == {m \in 1..NumLegal(b) : is_checkmate(Push(b, m))}

\* the evaluation of a position in which the opponent of b's side to move is mated
MateFor(b) == IF Turn(b) = WHITE THEN MATE_SCORE ELSE -MATE_SCORE

\* unpruned value, to the search depth, of the position after root move m
RootMoveValue(b, m, depth) == FullMinimax(Push(b, m), depth - 1, Turn(b) = BLACK)

\* the first move of the sequence whose unpruned value is v
FirstWithValue(b, ordered_moves, depth, v) ==
  ordered_moves[CHOOSE i \in 1..Len(ordered_moves) :
                  /\ RootMoveValue(b, ordered_moves[i], depth) = v
                  /\ \A j \in 1..(i - 1) : RootMoveValue(b, ordered_moves[j], depth) # v]

MateInOneCall ==
  /\ pc = "minimax_done"
  /\ args.depth >= 2
  /\ MatingMoves(CallerPosition) # {}

\* C11 as stated: whenever some move mates at once, best_move_minimax at depth >= 2
\* returns a move that mates at once.
C11_ReturnsImmediateMate ==
  MateInOneCall => ret.move \in MatingMoves(CallerPosition)

\* C11: whenever some move mates at once, best_move_minimax at depth >= 2 returns
\* a move that wins by force within the search horizon: the only legal move, or
\* else the first move in order_moves order whose unpruned value is the mate score;
\* that move mates at once when no move ordered before the first mating move
\* reaches the mate score as well.
C11_ReturnsFirstMateScoringMove ==
  MateInOneCall
    => /\ ret.status = "move"
       /\ NumLegal(CallerPosition) = 1 => ret.move \in MatingMoves(CallerPosition)
       /\ NumLegal(CallerPosition) >= 2
            => /\ ret.value = MateFor(CallerPosition)
               /\ ret.move = FirstWithValue(CallerPosition,
                                order_moves(CallerPosition, legal_moves(CallerPosition)),
                                args.depth, MateFor(CallerPosition))

\* C11 witness: with two or more legal moves, the search returned a move that
\* mates at once.
C11_Witness ==
  /\ MateInOneCall
  /\ NumLegal(CallerPosition) >= 2
  /\ ret.n > 0
  /\ ret.move \in MatingMoves(CallerPosition)
  /\ ret.value = MateFor(CallerPosition)

\* the best unpruned value a root move reaches for the side to move
BestRootValue(b, depth) ==
  LET values == {RootMoveValue(b, m, depth) : m \in 1..NumLegal(b)}
  IN  IF Turn(b) = WHITE THEN SetMax(values) ELSE SetMin(values)

RootSearchCall ==
  /\ pc = "minimax_done"
  /\ args.depth >= 1
  /\ NumLegal(CallerPosition) >= 2

RootOrder == order_moves(CallerPosition, legal_moves(CallerPosition))

\* C12: with two or more legal moves and depth >= 1, best_move_minimax returns the
\* first move in order_moves order whose unpruned minimax value at depth-1 is the
\* maximum (White to move) or minimum (Black to move) over all root moves, and its
\* score is that value.
C12_ReturnsFirstExtremalMove ==
  RootSearchCall
    => /\ ret.status = "move"
       /\ ret.move \in 1..NumLegal(CallerPosition)
       /\ ret.value = BestRootValue(CallerPosition, args.depth)
       /\ ret.move = FirstWithValue(CallerPosition, RootOrder, args.depth,
                                    BestRootValue(CallerPosition, args.depth))

\* C12 witness: the move returned was not the first one searched, so it was found
\* with the window narrowed by the moves before it.
C12_Witness ==
  /\ RootSearchCall
  /\ args.depth >= 2
  /\ ret.move # RootOrder[1]
  /\ RootMoveValue(CallerPosition, ret.move, args.depth)
       = BestRootValue(CallerPosition, args.depth)

\* C13: when an evaluate call fails while moves are applied, the board the caller of
\* best_move_minimax sees afterwards is the position it passed in.
C13_RestoredOnError ==
  pc = "minimax_raised" => board = CallerPosition

MctsFinished == MctsStarted /\ pc = "mcts_done" /\ args.simulations >= 1

RootChildren == tree[1].children

\* C14: a finished mcts_search (non-terminal root, one simulation or more) returns
\* the move of a root child that no other root child exceeds in visit_count and
\* that every root child created before it falls short of.
C14_ReturnsFirstMostVisited ==
  MctsFinished
    => /\ ret.status = "move"
       /\ \E i \in 1..Len(RootChildren) :
            /\ tree[RootChildren[i]].move = ret.move
            /\ \A j \in 1..Len(RootChildren) :
                 tree[RootChildren[j]].visit_count <= tree[RootChildren[i]].visit_count
            /\ \A j \in 1..(i - 1) :
                 tree[RootChildren[j]].visit_count < tree[RootChildren[i]].visit_count

\* C14 witness: two root children tie for the most visits, the one created first
\* is returned, and the other has the higher average value.
C14_Witness ==
  /\ MctsFinished
  /\ Len(RootChildren) >= 2
  /\ tree[RootChildren[1]].visit_count = tree[RootChildren[2]].visit_count
  /\ \A j \in 1..Len(RootChildren) :
       tree[RootChildren[j]].visit_count <= tree[RootChildren[1]].visit_count
  /\ ret.move = tree[RootChildren[1]].move
  /\ ~AverageGeq(tree[RootChildren[1]], tree[RootChildren[2]])

Evaluated == args.fn = "evaluate" /\ pc = "evaluated"

\* C15: evaluate returns -MATE_SCORE when White is to move and checkmated,
\* +MATE_SCORE when Black is to move and checkmated, 0 for every stalemate and
\* every position with insufficient material, whatever the material and the
\* positional terms are, and a value of magnitude below MATE_SCORE otherwise.
C15_TerminalScoresTakePrecedence ==
  Evaluated =>
    /\ (board.checkmate /\ board.turn = WHITE => ret.value = -MATE_SCORE)
    /\ (board.checkmate /\ board.turn = BLACK => ret.value = MATE_SCORE)
    /\ (board.stalemate \/ is_insufficient(board) => ret.value = 0)
    /\ (~board.checkmate => ret.value > -MATE_SCORE /\ ret.value < MATE_SCORE)

\* White is mated although the material and positional terms favour White by
\* more than nine queens
C15_Witness ==
  /\ Evaluated
  /\ board.checkmate /\ board.turn = WHITE
  /\ PositionalTerms(board) > 9 * PIECE_VALUES("queen")
  /\ ret.value = -MATE_SCORE

ValueCallReturned == pc \in {"value_done", "quiescence_done"}

\* C16: when minimax or quiescence_search is called on a position for which the
\* rules engine reports game over and which is not checkmate (a stalemate, a
\* position with insufficient material, or a draw by repetition or by the
\* move count), the value it returns is 0.
C16_DrawnTerminalScoresZero ==
  (ValueCallReturned /\ is_game_over(CallerPosition) /\ ~is_checkmate(CallerPosition))
    => ret.value = 0

MaterialEvaluated == args.fn = "evaluate_material" /\ pc = "evaluated"

\* the summed values of the pieces of one colour
MaterialOf(p, color) ==
  100 * CountOn(p, Squares, "pawn", color) + 300 * CountOn(p, Squares, "knight", color)
  + 300 * CountOn(p, Squares, "bishop", color) + 500 * CountOn(p, Squares, "rook", color)
  + 900 * CountOn(p, Squares, "queen", color) + 0 * CountOn(p, Squares, "king", color)

StartWithout(sq) == [PiecesOf(StartingPosition.rows) EXCEPT ![sq] = NoPiece]

\* C17: evaluate_material is the summed piece values (pawn 100, knight 300,
\* bishop 300, rook 500, queen 900, king 0) of White minus those of Black: 0 on
\* the starting position, -100 without White's h2 pawn, -900 without White's
\* queen, and lower by exactly v once a White piece of value v is left out.
C17_MaterialIsValueDifference ==
  MaterialEvaluated =>
    /\ ret.value = MaterialOf(board, WHITE) - MaterialOf(board, BLACK)
    /\ (board.pieces = PiecesOf(StartingPosition.rows) => ret.value = 0)
    /\ (board.pieces = StartWithout(square(7, 1)) => ret.value = -100)
    /\ (board.pieces = StartWithout(square(3, 0)) => ret.value = -900)
    /\ \A sq \in Squares :
         LET piece == piece_at(board, sq)
         IN  (piece # NoPiece /\ piece.color = WHITE)
               => evaluate_material([board EXCEPT !.pieces[sq] = NoPiece])
                    = ret.value - MaterialOf([pieces |-> [s \in Squares |->
                                     IF s = sq THEN piece ELSE NoPiece]], WHITE)

\* the starting position without White's h2 pawn has been evaluated
C17_Witness ==
  /\ MaterialEvaluated
  /\ board.pieces = StartWithout(square(7, 1))
  /\ ret.value = -100

SwapColor(piece) ==
  IF piece = NoPiece THEN NoPiece ELSE Piece(piece.piece_type, ~piece.color)

SwapRight(right) ==
  CASE right = "K" -> "k" [] right = "Q" -> "q" [] right = "k" -> "K" [] right = "q" -> "Q"

\* the colours of all pieces exchanged, the board flipped vertically, the side
\* to move and the castling rights swapped, the full-move number kept; the
\* rules of chess treat both colours alike, so the rules engine answers alike
mirror(p) ==
  [p EXCEPT !.pieces = [sq \in Squares |->
                          SwapColor(p.pieces[square(square_file(sq), 7 - square_rank(sq))])],
            !.turn = ~p.turn,
            !.castling = {SwapRight(right) : right \in p.castling}]

\* every term of the evaluation of m is the negated term of the evaluation of p
TermsNegated(p, m) ==
  /\ evaluate_material(m) = -evaluate_material(p)
  /\ evaluate_center_control(m) = -evaluate_center_control(p)
  /\ evaluate_piece_development(m) = -evaluate_piece_development(p)
  /\ evaluate_king_safety(m) = -evaluate_king_safety(p)
  /\ evaluate_pawn_structure(m) = -evaluate_pawn_structure(p)
  /\ CheckTerm(m.turn, m.check) = -CheckTerm(p.turn, p.check)
  /\ MobilityTerm(m.turn, m.mobility) = -MobilityTerm(p.turn, p.mobility)

\* C20: evaluate is antisymmetric under the colour swap, evaluate(mirror(p)) =
\* -evaluate(p), and so is each of its terms: material, centre control,
\* development, king safety, pawn structure, check bonus and mobility.
C20_AntisymmetricUnderMirror ==
  Evaluated => TermsNegated(board, mirror(board)) /\ evaluate_board(mirror(board)) = -ret.value

\* a position in play and in check whose material, king safety and pawn
\* structure all favour one side has been evaluated
C20_Witness ==
  /\ Evaluated
  /\ ~board.checkmate /\ ~board.stalemate /\ ~is_insufficient(board)
  /\ board.check
  /\ evaluate_material(board) # 0
  /\ evaluate_king_safety(board) # 0
  /\ evaluate_pawn_structure(board) # 0
  /\ ret.value # 0
  /\ evaluate_board(mirror(board)) = -ret.value

\* the root children whose position is checkmate: their move mates in one
MatingChildren == {c \in Nodes : tree[c].parent = 1 /\ is_checkmate(tree[c].board)}

\* C19: in mcts_search, whichever colour is to move at the root, a root child
\* whose position is checkmate receives exactly +1 on every visit: its
\* total_value equals its visit_count at all times.
C19_MatingChildEarnsOnePerVisit ==
  MctsStarted =>
    \A c \in MatingChildren : tree[c].total_value = ValueScale * tree[c].visit_count

\* Black is to move at the root and a mating root child has been visited twice
C19_Witness ==
  /\ MctsStarted
  /\ Turn(CallerPosition) = BLACK
  /\ \E c \in MatingChildren :
       tree[c].visit_count >= 2 /\ tree[c].total_value = ValueScale * tree[c].visit_count

\* C18: two invocations of best_move_minimax, best_move_mcts or
\* best_move_material with the same position and the same parameters return
\* the same move (the calls take no seed: nothing else is supplied to them).
C18_SameInputsSameMove ==
  (MoveCallReturned /\ earlier # NoEarlier /\ earlier.args = args)
    => (ret.status = earlier.status /\ ret.move = earlier.move)

\* ---- the loop of a minimax frame ------------------------------------------------
MinimaxReturned == pc \in {"value_done", "window_done"} /\ args.fn = "minimax"

\* a minimax call at a non-terminal node with depth >= 1 has returned
InteriorCall ==
  /\ MinimaxReturned
  /\ args.depth >= 1
  /\ ~is_game_over(CallerPosition)
  /\ NumLegal(CallerPosition) >= 1

\* the window after the first i child values of the returned call
AlphaAfter(i) ==
  IF args.maximizing
  THEN SetMax({args.alpha} \cup {ret.scores[j] : j \in 1..i})
  ELSE args.alpha
BetaAfter(i) ==
  IF args.maximizing
  THEN args.beta
  ELSE SetMin({args.beta} \cup {ret.scores[j] : j \in 1..i})

\* C21: a minimax frame at a non-terminal node with depth >= 1 searches the ordered
\* legal moves from the first on, each child with the window as the child values
\* seen so far have narrowed it (alpha raised at a maximizing node, beta lowered at
\* a minimizing one), goes on while beta > alpha and searches no further sibling
\* once beta <= alpha; it returns the maximum (minimum) of the child values it
\* got, whether or not that lies in the window of the call.
C21_CutoffDisciplineFailSoft ==
  InteriorCall =>
    LET ordered == order_moves(CallerPosition, legal_moves(CallerPosition))
        k == Len(ret.moves)
        values == {ret.scores[j] : j \in 1..k}
    IN  /\ k >= 1
        /\ k <= Len(ordered)
        /\ ret.moves = SubSeq(ordered, 1, k)
        /\ Len(ret.scores) = k
        /\ \A i \in 1..k :
             ret.scores[i] = minimax(Push(CallerPosition, ordered[i]), args.depth - 1,
                                     AlphaAfter(i - 1), BetaAfter(i - 1),
                                     ~args.maximizing).v
        /\ \A i \in 1..(k - 1) : BetaAfter(i) > AlphaAfter(i)
        /\ k < Len(ordered) => BetaAfter(k) <= AlphaAfter(k)
        /\ ret.value = IF args.maximizing THEN SetMax(values) ELSE SetMin(values)

\* C21 witness: a frame entered with a narrow window stopped before its last move
\* and returned a value outside that window.
C21_Witness ==
  /\ InteriorCall
  /\ pc = "window_done"
  /\ Len(ret.moves) < NumLegal(CallerPosition)
  /\ ret.value > args.beta \/ ret.value < args.alpha
  /\ ret.value = IF args.maximizing
                 THEN SetMax({ret.scores[j] : j \in 1..Len(ret.scores)})
                 ELSE SetMin({ret.scores[j] : j \in 1..Len(ret.scores)})

\* ---- quiescence_search called directly -----------------------------------------
\* a quiescence_search call on a non-terminal position has returned
QuiescenceReturned == pc = "quiescence_done" /\ ~is_game_over(CallerPosition)

\* the captures, promotions and admitted checks of a position
NoisyMoves(b) == NoisyScan(b, legal_moves(b), 1, <<>>).moves

\* the position is quiet or the call has no depth left
QuietOrCapped == args.depth <= 0 \/ NoisyMoves(CallerPosition) = <<>>

\* C22 as stated: on a non-terminal position without noisy moves, or with
\* max_depth <= 0, quiescence_search returns evaluate(position) for every window.
C22_StandPatForEveryWindow ==
  (QuiescenceReturned /\ QuietOrCapped) => ret.value = evaluate(CallerPosition)

\* C22: on a non-terminal position quiescence_search returns evaluate(position)
\* when max_depth <= 0; with max_depth > 0 and no noisy move it returns the
\* stand-pat value cut at the bound of the side to move: min(stand_pat, beta) at a
\* maximizing node, max(stand_pat, alpha) at a minimizing one.
C22_StandPatCutAtBound ==
  (QuiescenceReturned /\ QuietOrCapped) =>
    LET stand_pat == evaluate(CallerPosition)
    IN  ret.value = IF args.depth <= 0 THEN stand_pat
                    ELSE IF args.maximizing THEN Min(stand_pat, args.beta)
                    ELSE Max(stand_pat, args.alpha)

\* C22 witness: a quiet position searched with depth left and a narrow window that
\* holds its stand-pat value, which is returned.
C22_Witness ==
  /\ QuiescenceReturned
  /\ args.depth > 0
  /\ NumLegal(CallerPosition) >= 1
  /\ NoisyMoves(CallerPosition) = <<>>
  /\ args.alpha > NegInf
  /\ args.alpha < evaluate(CallerPosition)
  /\ evaluate(CallerPosition) < args.beta
  /\ ret.value = evaluate(CallerPosition)

\* a quiescence_search call with alpha < beta and max_depth > 0 on a non-terminal
\* position has returned
OpenQuiescenceCall == QuiescenceReturned /\ args.depth > 0 /\ args.alpha < args.beta

\* the score the last recursive call of the returned frame handed back
LastScore == ret.scores[Len(ret.scores)]

\* C23: quiescence_search called with alpha < beta and max_depth > 0 on a
\* non-terminal position returns the bound itself at a cutoff: beta when the
\* stand-pat value or a child score is >= beta at a maximizing node, alpha when it
\* is <= alpha at a minimizing node; a stand-pat cutoff searches no move; and a
\* value returned after at least one noisy move was searched lies in [alpha, beta].
C23_QuiescenceFailHard ==
  OpenQuiescenceCall =>
    LET stand_pat == evaluate(CallerPosition)
        searched == Len(ret.moves)
    IN  /\ (args.maximizing /\ stand_pat >= args.beta)
             => (ret.value = args.beta /\ searched = 0)
        /\ (~args.maximizing /\ stand_pat <= args.alpha)
             => (ret.value = args.alpha /\ searched = 0)
        /\ (searched >= 1 /\ args.maximizing /\ LastScore >= args.beta)
             => ret.value = args.beta
        /\ (searched >= 1 /\ ~args.maximizing /\ LastScore <= args.alpha)
             => ret.value = args.alpha
        /\ searched >= 1 => (args.alpha <= ret.value /\ ret.value <= args.beta)

\* C23 witness: a noisy move came back with a score strictly beyond the bound and
\* the call returned the bound.
C23_Witness ==
  /\ OpenQuiescenceCall
  /\ Len(ret.moves) >= 1
  /\ \/ args.maximizing /\ LastScore > args.beta /\ ret.value = args.beta
     \/ ~args.maximizing /\ LastScore < args.alpha /\ ret.value = args.alpha

\* ---- the moves a quiescence frame searches -----------------------------------
RECURSIVE CollectedBefore(_, _)

\* the i-th legal move is a capture, a promotion, or gives check and is met while
\* fewer than 5 noisy moves have been collected
Admitted(b, i) ==
  LET move == legal_moves(b)[i]
  IN  \/ is_capture(b, move)
      \/ promotion(b, move)
      \/ is_check(Push(b, move)) /\ CollectedBefore(b, i) < 5

\* how many of the legal moves before the i-th are admitted
CollectedBefore(b, i) ==
  IF i <= 1 THEN 0
  ELSE CollectedBefore(b, i - 1) + (IF Admitted(b, i - 1) THEN 1 ELSE 0)

AdmittedMoves(b) == {legal_moves(b)[i] : i \in {j \in 1..NumLegal(b) : Admitted(b, j)}}

\* a check that comes too late: neither capture nor promotion, met after 5 noisy moves
LateCheck(b, i) ==
  /\ ~is_capture(b, legal_moves(b)[i])
  /\ ~promotion(b, legal_moves(b)[i])
  /\ is_check(Push(b, legal_moves(b)[i]))
  /\ CollectedBefore(b, i) >= 5

\* a check admitted although it is neither capture nor promotion
EarlyCheck(b, i) ==
  /\ ~is_capture(b, legal_moves(b)[i])
  /\ ~promotion(b, legal_moves(b)[i])
  /\ is_check(Push(b, legal_moves(b)[i]))
  /\ CollectedBefore(b, i) < 5

\* the returned quiescence call got as far as collecting the noisy moves
ScannedCall ==
  /\ QuiescenceReturned
  /\ args.depth > 0
  /\ ~(args.maximizing /\ evaluate(CallerPosition) >= args.beta)
  /\ ~(~args.maximizing /\ evaluate(CallerPosition) <= args.alpha)

\* the loop over the noisy moves was left at a cutoff
ChildCutoff ==
  /\ Len(ret.moves) >= 1
  /\ \/ args.maximizing /\ LastScore >= args.beta
     \/ ~args.maximizing /\ LastScore <= args.alpha

TypeName(t) ==
  CASE t = 1 -> "pawn"
    [] t = 2 -> "knight"
    [] t = 3 -> "bishop"
    [] t = 4 -> "rook"
    [] t = 5 -> "queen"
    [] t = 6 -> "king"

\* the priority with the evaluator's piece values; the pawn taken en passant is
\* not on the target square
ValuePriority(b, m) ==
  LET victim == IF captured_type(b, m) = 0 THEN 1 ELSE captured_type(b, m)
      cap == IF is_capture(b, m)
             THEN PIECE_VALUES(TypeName(victim)) * 100
                    - PIECE_VALUES(TypeName(attacker_type(b, m)))
             ELSE 0
      chk == IF is_check(Push(b, m)) THEN 50 ELSE 0
      pro == IF promotion(b, m) THEN 900 ELSE 0
  IN  cap + chk + pro

\* the returned list holds every given move once
PermutationOfGiven ==
  /\ Len(ret.moves) = Len(args.moves)
  /\ \A m \in 1..CrowdedMoves :
       Cardinality({j \in 1..Len(ret.moves) : ret.moves[j] = m})
         = Cardinality({j \in 1..Len(args.moves) : args.moves[j] = m})

\* C25: order_moves returns a permutation of the moves it is given, sorted in
\* non-increasing priority, the priority of a capture being the evaluator's value of
\* the captured piece x 100 minus the evaluator's value of the capturing piece,
\* plus 50 for a check and 900 for a promotion; the position is left as it was.
C25_SortedByPieceValuePriority ==
  pc = "ordered" =>
    /\ PermutationOfGiven
    /\ \A i, j \in 1..Len(ret.moves) :
         i < j => ValuePriority(CallerPosition, ret.moves[i])
                    >= ValuePriority(CallerPosition, ret.moves[j])
    /\ board = CallerPosition

\* the priority with python-chess piece_type numbers (pawn 1, knight 2, bishop 3,
\* rook 4, queen 5, king 6); nothing is added for the empty target square of an
\* en passant capture
TypePriority(b, m) ==
  (IF is_capture(b, m) THEN captured_type(b, m) * 100 - attacker_type(b, m) ELSE 0)
    + (IF is_check(Push(b, m)) THEN 50 ELSE 0)
    + (IF promotion(b, m) THEN 900 ELSE 0)

\* where a move stands in the list order_moves was given
GivenAt(m) == CHOOSE j \in 1..Len(args.moves) : args.moves[j] = m

\* C25: order_moves returns a permutation of the moves it is given, sorted in
\* non-increasing priority with moves of equal priority in the order given, the
\* priority of a capture being the piece_type number of the captured piece x 100
\* minus the piece_type number of the capturing piece, plus 50 for a check and 900
\* for a promotion; the position is left as it was.
C25_SortedByPieceTypePriority ==
  pc = "ordered" =>
    /\ PermutationOfGiven
    /\ \A i, j \in 1..Len(ret.moves) :
         i < j => \/ TypePriority(CallerPosition, ret.moves[i])
                       > TypePriority(CallerPosition, ret.moves[j])
                  \/ /\ TypePriority(CallerPosition, ret.moves[i])
                          = TypePriority(CallerPosition, ret.moves[j])
                     /\ GivenAt(ret.moves[i]) < GivenAt(ret.moves[j])
    /\ board = CallerPosition

\* C25 witness: order_moves moved a promotion that captures nothing ahead of a
\* capture, and a capture by a cheaper piece ahead of a capture of the same kind of
\* piece by a dearer one that was given first.
C25_Witness ==
  /\ pc = "ordered"
  /\ board = CallerPosition
  /\ ret.moves # args.moves
  /\ \E i, j \in 1..Len(ret.moves) :
       /\ i < j
       /\ promotion(CallerPosition, ret.moves[i])
       /\ ~is_capture(CallerPosition, ret.moves[i])
       /\ is_capture(CallerPosition, ret.moves[j])
  /\ \E i, j \in 1..Len(ret.moves) :
       /\ i < j
       /\ GivenAt(ret.moves[i]) > GivenAt(ret.moves[j])
       /\ is_capture(CallerPosition, ret.moves[i])
       /\ is_capture(CallerPosition, ret.moves[j])
       /\ captured_type(CallerPosition, ret.moves[i])
            = captured_type(CallerPosition, ret.moves[j])
       /\ attacker_type(CallerPosition, ret.moves[i])
            < attacker_type(CallerPosition, ret.moves[j])
       /\ is_check(Push(CallerPosition, ret.moves[i]))
            = is_check(Push(CallerPosition, ret.moves[j]))
       /\ promotion(CallerPosition, ret.moves[i])
            = promotion(CallerPosition, ret.moves[j])

\* ---- the search tree of mcts_search --------------------------------------------
\* C26: every best_child call of mcts_search is made at a node with no untried
\* move left, at least one child and visit_count >= 1, all of whose children have
\* visit_count >= 1: no uct_value is infinite, takes ln(0) or divides by zero.
C26_BestChildOnlyAfterAllTried ==
  \A i \in 1..Len(simLog) : \A j \in 1..Len(simLog[i].walk) :
    LET call == simLog[i].walk[j]
    IN  /\ call.untried = 0
        /\ Len(call.visits) = NumLegal(tree[call.node].board)
        /\ Len(call.visits) >= 1
        /\ call.visit_count >= 1
        /\ \A c \in 1..Len(call.visits) : call.visits[c] >= 1

\* C26 witness: with two children at the root, each simulated once, the third
\* simulation chose between them by UCT.
C26_Witness ==
  /\ pc = "mcts_running"
  /\ Len(simLog) >= 3
  /\ Len(simLog[3].walk) >= 1
  /\ simLog[3].walk[1].node = 1
  /\ simLog[3].walk[1].visits = <<1, 1>>
  /\ simLog[3].walk[1].visit_count = 2

\* the last simulation of the log
LastSim == simLog[Len(simLog)]

\* distance of node n above node `from` along the parent links, -1 off the path
RECURSIVE DistanceAbove(_, _, _, _)
DistanceAbove(t, from, n, k) ==
  IF from = 0 THEN -1
  ELSE IF from = n THEN k
  ELSE DistanceAbove(t, t[from].parent, n, k + 1)

Alternating(k, v) == IF k % 2 = 0 THEN v ELSE -v

\* the counters of node n before the step; a node the step created starts at 0
VisitsBefore(n) == IF n <= Len(tree) THEN tree[n].visit_count ELSE 0
TotalBefore(n) == IF n <= Len(tree) THEN tree[n].total_value ELSE 0

\* C27: the backpropagation of a simulation from `node` with value v adds 1 to
\* visit_count and (-1)^k * v to total_value of the node k parent links above
\* `node`, for every such node up to the root, which is always among them, and
\* leaves the counters of every other node as they were.
C27_BackpropagateFrame ==
  [][(pc = "mcts_running" /\ iter' = iter + 1) =>
       LET node == LastSim'.node
           v == LastSim'.value
       IN  /\ DistanceAbove(tree', node, 1, 0) = LastSim'.ply
           /\ \A n \in 1..Len(tree') :
                LET k == DistanceAbove(tree', node, n, 0)
                IN  IF k >= 0
                    THEN /\ tree'[n].visit_count = VisitsBefore(n) + 1
                         /\ tree'[n].total_value = TotalBefore(n) + Alternating(k, v)
                    ELSE /\ tree'[n].visit_count = VisitsBefore(n)
                         /\ tree'[n].total_value = TotalBefore(n)]_vars

\* C27 witness: a simulation two plies below the root came back with a value other
\* than 0 and was added to the node, its parent (negated) and the root, while a
\* fourth node stood off the path.
C27_Witness ==
  /\ pc = "mcts_running"
  /\ Len(simLog) >= 3
  /\ Len(tree) >= 4
  /\ LastSim.ply = 2
  /\ LastSim.value # 0
  /\ tree[LastSim.node].visit_count = 1
  /\ tree[LastSim.node].total_value = LastSim.value
  /\ \E n \in 2..Len(tree) : DistanceAbove(tree, LastSim.node, n, 0) = -1

SetOf(seq) == {seq[i] : i \in 1..Len(seq)}

\* the moves of a node that have a child
ChildMoves(n) == {tree[tree[n].children[i]].move : i \in 1..Len(tree[n].children)}

\* C28: throughout mcts_search the moves of a node that have a child and its
\* untried moves are disjoint, without repetition, and together the legal moves of
\* the node's position; a child's position is its parent's with the child's move
\* applied; a terminal node has no child; and after k simulations the tree has at
\* most k + 1 nodes.
C28_TreeStructure ==
  (pc \in {"mcts_running", "mcts_done"} /\ tree # <<>>) =>
    /\ Len(tree) <= iter + 1
    /\ \A n \in 1..Len(tree) :
         /\ ChildMoves(n) \cap SetOf(tree[n].untried_moves) = {}
         /\ ChildMoves(n) \cup SetOf(tree[n].untried_moves)
              = SetOf(legal_moves(tree[n].board))
         /\ Cardinality(ChildMoves(n)) = Len(tree[n].children)
         /\ Cardinality(SetOf(tree[n].untried_moves)) = Len(tree[n].untried_moves)
         /\ \A i \in 1..Len(tree[n].children) :
              LET c == tree[n].children[i]
              IN  /\ c \in 2..Len(tree)
                  /\ tree[c].parent = n
                  /\ tree[c].board = Push(tree[n].board, tree[c].move)
         /\ is_terminal(tree[n]) => tree[n].children = <<>>

\* C28 witness: after three simulations the root has both its moves as children,
\* and one of them, a terminal node that still lists legal moves, was simulated
\* twice without being expanded.
C28_Witness ==
  /\ pc = "mcts_running"
  /\ iter = 3
  /\ Len(tree) = 3
  /\ Len(tree[1].children) = 2
  /\ \E n \in 2..Len(tree) :
       /\ is_terminal(tree[n])
       /\ tree[n].untried_moves # <<>>
       /\ tree[n].visit_count >= 2
       /\ tree[n].children = <<>>

\* ---- the UCI command loop ------------------------------------------------------
\* the bestmove lines written for the last command
BestMoveLines ==
  {i \in 1..Len(engine.out) : engine.out[i].line \in {"bestmove", "bestmove 0000"}}

\* C29: once a go command has been handled, exactly one bestmove line has been
\* written for it: a legal move of the position the command found when that
\* position has legal moves, "bestmove 0000" otherwise; and the engine's board is
\* the one the command found.
C29_GoAnsweredByOneBestMove ==
  engine.command = "go" =>
    /\ Cardinality(BestMoveLines) = 1
    /\ \A i \in BestMoveLines :
         IF NumLegal(engine.before) >= 1
         THEN /\ engine.out[i].line = "bestmove"
              /\ engine.out[i].move \in 1..NumLegal(engine.before)
         ELSE engine.out[i] = NullMoveLine
    /\ board = engine.before

\* C30: between commands search_depth lies in the declared range and is the value
\* of the last setoption that carried an integer in that range, the default 3
\* before any: no go command leaves its depth override behind.
C30_SearchDepthIsConfiguredValue ==
  /\ engine.search_depth \in MinSearchDepth..MaxSearchDepth
  /\ engine.search_depth = engine.configured

====
